---------------------------- MODULE Spec2Model ----------------------------
(***************************************************************************)
(* A model of the hexes library (cwahlfeldt/hexes): cube-coordinate math,  *)
(* the copy-on-write grid store, the spatial queries and the A* path       *)
(* finder.                                                                 *)
(*                                                                         *)
(* JavaScript objects that the library shares between grid generations     *)
(* (Map objects, cell objects, grid objects) live in a heap and are named  *)
(* by references, so that an in-place write is visible through every       *)
(* generation that shares the object.                                      *)
(***************************************************************************)
EXTENDS Integers, Sequences, FiniteSets, TLC

VARIABLES
    grids,      \* heap of grid objects: [cells |-> Map reference, layout, size]
    maps,       \* heap of Map objects: a sequence of entries [key, val] in insertion order
    cells,      \* heap of cell objects: [coord, passable, data]
    last,       \* the last library call of the grid store and what it returned
    snap,       \* the contents every grid object had when it was returned
    call,       \* the call of a coordinate function, constructor or query, with its result
    world,      \* what a client holds: the grid it hands to the queries, or the
                \* entities createEntity gave it
    nextId      \* the module-level counter of entities.js that mints entity ids

vars == <<grids, maps, cells, last, snap, call, world, nextId>>

storeVars == <<grids, maps, cells, last, snap, nextId>>

-----------------------------------------------------------------------------
(* Bounds of the model *)

\* number of mutator calls in one behaviour of the grid store
MaxCalls == 2

\* the grids the store starts from: createHexGrid(StoreRadius) and
\* createGrid(StoreSide, StoreSide)
StoreRadius == 1

StoreSide == 2

\* the grid the queries run on: createGrid(NavWidth, NavHeight), then up to MaxEdits
\* cells made impassable
NavWidth == 3

NavHeight == 2

MaxEdits == 1

\* largest distance budget given to getReachable
MaxDistance == 3

\* largest radius given to createHexGrid
MaxRadius == 2

\* largest width and height given to createGrid
MaxSide == 3

\* round's inputs are the fractions n / d with n in -MaxNum..MaxNum and d in 1..MaxDen
MaxNum == 5

MaxDen == 3

\* createCustomGrid's bounds lie in -MaxBound..MaxBound
MaxBound == 1

\* offsetToCube's columns and rows lie in -MaxOffset..MaxOffset
MaxOffset == 3

\* getPathCost and getPathLength are called with paths of up to MaxPathLen cells
MaxPathLen == 2

\* setCellData is called with up to MaxEntities entities
MaxEntities == 2

\* the cube coordinates distance is called with lie within MaxTriangle of the origin
MaxTriangle == 2

\* number of createEntity calls in one behaviour of the entity factory
MaxCreated == 3

\* the grid the step-by-step search runs on: createGrid(SearchSide, SearchSide), then
\* up to MaxEdits cells made impassable
SearchSide == 2

-----------------------------------------------------------------------------
(* Values *)

Layouts == {"pointy", "flat"}

Null == [null |-> TRUE]

Coord(x, y, z) == [x |-> x, y |-> y, z |-> z]

Abs(n) == IF n < 0 THEN -n ELSE n

Max(a, b) == IF a > b THEN a ELSE b

Min(a, b) == IF a < b THEN a ELSE b

EmptyData == <<>>

-----------------------------------------------------------------------------
(* coord.js *)

DIRECTIONS ==
    << Coord(1, -1, 0), Coord(1, 0, -1), Coord(0, 1, -1),
       Coord(-1, 1, 0), Coord(-1, 0, 1), Coord(0, -1, 1) >>

add(a, b) == Coord(a.x + b.x, a.y + b.y, a.z + b.z)

getDirections == DIRECTIONS

equals(a, b) == a.x = b.x /\ a.y = b.y /\ a.z = b.z

\* `${coord.x},${coord.y},${coord.z}`
hash(coord) ==
    ToString(coord.x) \o "," \o ToString(coord.y) \o "," \o ToString(coord.z)

\* a distance that looks at the x axis only
distanceAlongX(a, b) == Abs(a.x - b.x)

\* (|dx| + |dy| + |dz|) / 2; the sum is even for coordinates with x+y+z = 0
distance(a, b) == (Abs(a.x - b.x) + Abs(a.y - b.y) + Abs(a.z - b.z)) \div 2

\* n & 1 of JavaScript, for a 32 bit integer n (two's complement): the lowest bit
BitAnd1(n) == n % 2

\* n / 2 rounded towards zero
TruncatedHalf(n) == IF n >= 0 THEN n \div 2 ELSE -((-n) \div 2)

\* a conversion that halves by rounding towards zero
cubeToOffsetTruncating(coord, layout) ==
    IF layout = "pointy"
    THEN [col |-> coord.x + TruncatedHalf(coord.z), row |-> coord.z]
    ELSE [col |-> coord.x, row |-> coord.z + TruncatedHalf(coord.x)]

\* (n - (n & 1)) / 2 is exact: n - (n & 1) is even
cubeToOffset(coord, layout) ==
    IF layout = "pointy"
    THEN LET col == coord.x + (coord.z - BitAnd1(coord.z)) \div 2
             row == coord.z
         IN  [col |-> col, row |-> row]
    ELSE LET col == coord.x
             row == coord.z + (coord.x - BitAnd1(coord.x)) \div 2
         IN  [col |-> col, row |-> row]

offsetToCube(offset, layout) ==
    IF layout = "pointy"
    THEN LET x == offset.col - (offset.row - BitAnd1(offset.row)) \div 2
             z == offset.row
         IN  Coord(x, -x - z, z)
    ELSE LET x == offset.col
             z == offset.row - (offset.col - BitAnd1(offset.col)) \div 2
         IN  Coord(x, -x - z, z)

-----------------------------------------------------------------------------
(* The JavaScript Map: entries in insertion order, one per key *)

MapKeys(m) == {m[i].key : i \in DOMAIN m}

MapHas(m, key) == \E i \in DOMAIN m : m[i].key = key

\* the value under key, or Null for JavaScript's undefined
MapGet(m, key) ==
    IF MapHas(m, key)
    THEN m[CHOOSE i \in DOMAIN m : m[i].key = key].val
    ELSE Null

\* set replaces the value of an existing key where it stands, and appends a new key
MapSet(m, key, val) ==
    IF MapHas(m, key)
    THEN [i \in DOMAIN m |-> IF m[i].key = key THEN [key |-> key, val |-> val] ELSE m[i]]
    ELSE Append(m, [key |-> key, val |-> val])

MapDelete(m, key) == SelectSeq(m, LAMBDA e : e.key # key)

\* TLC computes an operator's argument when it is first used.  A loop that hands
\* its Map on to the next iteration tests Computed(m), which is true of every Map,
\* so that each iteration computes its Map before the next one starts, as the
\* statements of the loop do.
Computed(m) == Len(m) >= 0

-----------------------------------------------------------------------------
(* Fractional cube coordinates: each axis is the rational num / den, den > 0 *)

Frac(nx, ny, nz, den) == [x |-> nx, y |-> ny, z |-> nz, den |-> den]

\* a.x + (b.x - a.x) * t on each axis, for t = tn / td
lerp(a, b, tn, td) ==
    Frac(a.x * td + (b.x - a.x) * tn,
         a.y * td + (b.y - a.y) * tn,
         a.z * td + (b.z - a.z) * tn, td)

\* Math.round(n / d): the nearest integer, a half rounding up
MathRound(n, d) == (2 * n + d) \div (2 * d)

\* the axis round recomputes; the rounding errors are compared over the denominator
roundAxisAsClaimed(c) ==
    LET xDiff == Abs(MathRound(c.x, c.den) * c.den - c.x)
        yDiff == Abs(MathRound(c.y, c.den) * c.den - c.y)
        zDiff == Abs(MathRound(c.z, c.den) * c.den - c.z)
    IN  IF xDiff > yDiff /\ xDiff > zDiff THEN "x"
        ELSE IF yDiff > xDiff /\ yDiff > zDiff THEN "y"
        ELSE "z"

roundAxis(c) ==
    LET xDiff == Abs(MathRound(c.x, c.den) * c.den - c.x)
        yDiff == Abs(MathRound(c.y, c.den) * c.den - c.y)
        zDiff == Abs(MathRound(c.z, c.den) * c.den - c.z)
    IN  IF xDiff > yDiff /\ xDiff > zDiff THEN "x"
        ELSE IF yDiff > zDiff THEN "y"
        ELSE "z"

\* the three axes, each rounded on its own
roundings(c) ==
    Coord(MathRound(c.x, c.den), MathRound(c.y, c.den), MathRound(c.z, c.den))

roundWithoutFixup(c) == roundings(c)

round(c) ==
    LET rx == roundings(c).x
        ry == roundings(c).y
        rz == roundings(c).z
        axis == roundAxis(c)
    IN  IF axis = "x" THEN Coord(-ry - rz, ry, rz)
        ELSE IF axis = "y" THEN Coord(rx, -rx - rz, rz)
        ELSE Coord(rx, ry, -rx - ry)

-----------------------------------------------------------------------------
(* line.js: getLine *)

RECURSIVE getLineLoop(_, _, _, _, _)
getLineLoop(coordA, coordB, dist, i, results) ==
    IF i <= dist
    THEN LET interpolated == IF dist = 0 THEN lerp(coordA, coordB, 0, 1)
                                         ELSE lerp(coordA, coordB, i, dist)
         IN  getLineLoop(coordA, coordB, dist, i + 1, Append(results, round(interpolated)))
    ELSE results

\* a line that leaves out the sample at t = 0
getLineFromOne(coordA, coordB) ==
    getLineLoop(coordA, coordB, distance(coordA, coordB), 1, <<>>)

getLine(coordA, coordB) == getLineLoop(coordA, coordB, distance(coordA, coordB), 0, <<>>)

-----------------------------------------------------------------------------
(* grid.js: the constructors.  A grid value is [cells, layout, size] with    *)
(* cells a Map from hash to cell.                                          *)

NewCell(coord, defaultData) == [coord |-> coord, passable |-> TRUE, data |-> defaultData]

RECURSIVE createGridCols(_, _, _, _, _, _)
createGridCols(m, row, col, width, layout, defaultData) ==
    IF col < width /\ Computed(m)
    THEN LET coord == offsetToCube([col |-> col, row |-> row], layout)
         IN  createGridCols(MapSet(m, hash(coord), NewCell(coord, defaultData)),
                            row, col + 1, width, layout, defaultData)
    ELSE m

RECURSIVE createGridRows(_, _, _, _, _, _)
createGridRows(m, row, width, height, layout, defaultData) ==
    IF row < height /\ Computed(m)
    THEN createGridRows(createGridCols(m, row, 0, width, layout, defaultData),
                        row + 1, width, height, layout, defaultData)
    ELSE m

createGridExtraRow(width, height, layout, defaultData) ==
    [cells |-> createGridRows(<<>>, 0, width, height + 1, layout, defaultData),
     layout |-> layout,
     size |-> [width |-> width, height |-> height]]

createGrid(width, height, layout, defaultData) ==
    [cells |-> createGridRows(<<>>, 0, width, height, layout, defaultData),
     layout |-> layout,
     size |-> [width |-> width, height |-> height]]

RECURSIVE createHexGridY(_, _, _, _, _)
createHexGridY(m, x, y, radius, defaultData) ==
    IF y <= Min(radius, -x + radius) /\ Computed(m)
    THEN LET coord == Coord(x, y, -x - y)
         IN  createHexGridY(MapSet(m, hash(coord), NewCell(coord, defaultData)),
                            x, y + 1, radius, defaultData)
    ELSE m

RECURSIVE createHexGridX(_, _, _, _)
createHexGridX(m, x, radius, defaultData) ==
    IF x <= radius /\ Computed(m)
    THEN createHexGridX(createHexGridY(m, x, Max(-radius, -x - radius), radius, defaultData),
                        x + 1, radius, defaultData)
    ELSE m

createHexGridNarrow(radius, layout, defaultData) ==
    [cells |-> createHexGridX(<<>>, -radius + 1, radius, defaultData),
     layout |-> layout,
     size |-> [radius |-> radius]]

createHexGrid(radius, layout, defaultData) ==
    [cells |-> createHexGridX(<<>>, -radius, radius, defaultData),
     layout |-> layout,
     size |-> [radius |-> radius]]

\* the predicates handed to createCustomGrid, by name
Predicates == {"all", "none", "disc", "halfplane"}

predicate(name, coord) ==
    CASE name = "all" -> TRUE
      [] name = "none" -> FALSE
      [] name = "disc" -> distance(Coord(0, 0, 0), coord) <= 1
      [] name = "halfplane" -> coord.z >= 0

RECURSIVE createCustomGridY(_, _, _, _, _, _)
createCustomGridY(m, x, y, pred, bounds, defaultData) ==
    IF y <= bounds.maxY /\ Computed(m)
    THEN LET coord == Coord(x, y, -x - y)
         IN  createCustomGridY(
                 IF predicate(pred, coord)
                 THEN MapSet(m, hash(coord), NewCell(coord, defaultData))
                 ELSE m,
                 x, y + 1, pred, bounds, defaultData)
    ELSE m

RECURSIVE createCustomGridX(_, _, _, _, _)
createCustomGridX(m, x, pred, bounds, defaultData) ==
    IF x <= bounds.maxX /\ Computed(m)
    THEN createCustomGridX(createCustomGridY(m, x, bounds.minY, pred, bounds, defaultData),
                           x + 1, pred, bounds, defaultData)
    ELSE m

createCustomGrid(pred, bounds, layout, defaultData) ==
    [cells |-> createCustomGridX(<<>>, bounds.minX, pred, bounds, defaultData),
     layout |-> layout,
     size |-> bounds]

-----------------------------------------------------------------------------
(* grid.js: the reads *)

\* grid.cells.get(key) || null
getCell(grid, coord) == MapGet(grid.cells, hash(coord))

hasCell(grid, coord) == MapHas(grid.cells, hash(coord))

isPassable(grid, coord) ==
    LET cell == getCell(grid, coord)
    IN  IF cell # Null THEN cell.passable ELSE FALSE

\* the coordinates of the cells of a grid, in the Map's iteration order
CellCoords(grid) == [i \in DOMAIN grid.cells |-> grid.cells[i].val.coord]

SeqToSet(s) == {s[i] : i \in DOMAIN s}

\* the sequences over a set of at most n elements
RECURSIVE SeqsUpTo(_, _)
SeqsUpTo(S, n) ==
    IF n = 0 THEN {<<>>}
    ELSE LET shorter == SeqsUpTo(S, n - 1)
         IN  shorter \cup { Append(q, e) : q \in shorter, e \in S }

-----------------------------------------------------------------------------
(* neighbors.js: getNeighbors *)

RECURSIVE getNeighborsLoop(_, _, _, _, _)
getNeighborsLoop(grid, coord, passableOnly, d, neighbors) ==
    IF d > Len(getDirections) THEN neighbors
    ELSE LET neighbor == add(coord, getDirections[d])
         IN  IF ~hasCell(grid, neighbor)
             THEN getNeighborsLoop(grid, coord, passableOnly, d + 1, neighbors)
             ELSE IF passableOnly /\ ~isPassable(grid, neighbor)
             THEN getNeighborsLoop(grid, coord, passableOnly, d + 1, neighbors)
             ELSE getNeighborsLoop(grid, coord, passableOnly, d + 1,
                                   Append(neighbors, neighbor))

\* a getNeighbors that takes passableOnly to be false whatever it is given
getNeighborsOfAny(grid, coord, passableOnly) ==
    getNeighborsLoop(grid, coord, FALSE, 1, <<>>)

getNeighbors(grid, coord, passableOnly) ==
    getNeighborsLoop(grid, coord, passableOnly, 1, <<>>)

-----------------------------------------------------------------------------
(* line.js: hasLineOfSight, getVisibleCells *)

RECURSIVE hasLineOfSightLoop(_, _, _)
hasLineOfSightLoop(grid, line, i) ==
    IF i > Len(line) THEN TRUE
    ELSE IF ~hasCell(grid, line[i]) THEN FALSE
    ELSE IF ~isPassable(grid, line[i]) THEN FALSE
    ELSE hasLineOfSightLoop(grid, line, i + 1)

\* a line of sight that only asks for the cells to exist
hasLineOfSightThroughWalls(grid, coordA, coordB) ==
    \A i \in DOMAIN getLine(coordA, coordB) : hasCell(grid, getLine(coordA, coordB)[i])

hasLineOfSight(grid, coordA, coordB) ==
    hasLineOfSightLoop(grid, getLine(coordA, coordB), 1)

\* the maxRange argument of getVisibleCells: a number, or Infinity when it is
\* omitted
Range(n) == [finite |-> TRUE, value |-> n]

Infinity == [finite |-> FALSE, value |-> 0]

\* dist > maxRange
GreaterThan(dist, maxRange) == maxRange.finite /\ dist > maxRange.value

RECURSIVE getVisibleCellsLoop(_, _, _, _, _)
getVisibleCellsLoop(grid, origin, maxRange, i, visible) ==
    IF i > Len(grid.cells) THEN visible
    ELSE LET cell == grid.cells[i].val
             dist == distance(origin, cell.coord)
         IN  IF GreaterThan(dist, maxRange)
             THEN getVisibleCellsLoop(grid, origin, maxRange, i + 1, visible)
             ELSE IF hasLineOfSight(grid, origin, cell.coord)
             THEN getVisibleCellsLoop(grid, origin, maxRange, i + 1,
                                      Append(visible, cell.coord))
             ELSE getVisibleCellsLoop(grid, origin, maxRange, i + 1, visible)

\* a scan that does not look at maxRange
getVisibleCellsAnyRange(grid, origin, maxRange) ==
    getVisibleCellsLoop(grid, origin, Infinity, 1, <<>>)

getVisibleCells(grid, origin, maxRange) ==
    getVisibleCellsLoop(grid, origin, maxRange, 1, <<>>)

-----------------------------------------------------------------------------
(* neighbors.js: getRange, getRing, getSpiral *)

RECURSIVE getRangeLoop(_, _, _, _, _)
getRangeLoop(grid, coord, range, i, results) ==
    IF i > Len(grid.cells) THEN results
    ELSE LET cell == grid.cells[i].val
             dist == distance(coord, cell.coord)
         IN  getRangeLoop(grid, coord, range, i + 1,
                          IF dist <= range THEN Append(results, cell.coord) ELSE results)

\* a range that leaves out the cells at the range itself
getRangeStrict(grid, coord, range) == getRangeLoop(grid, coord, range - 1, 1, <<>>)

getRange(grid, coord, range) == getRangeLoop(grid, coord, range, 1, <<>>)

RECURSIVE getRingLoop(_, _, _, _, _)
getRingLoop(grid, coord, radius, i, results) ==
    IF i > Len(grid.cells) THEN results
    ELSE LET cell == grid.cells[i].val
             dist == distance(coord, cell.coord)
         IN  getRingLoop(grid, coord, radius, i + 1,
                         IF dist = radius THEN Append(results, cell.coord) ELSE results)

getRing(grid, coord, radius) == getRingLoop(grid, coord, radius, 1, <<>>)

RECURSIVE getSpiralLoop(_, _, _, _, _)
getSpiralLoop(grid, center, maxRadius, radius, results) ==
    IF radius <= maxRadius
    THEN LET ring == getRing(grid, center, radius)
         IN  getSpiralLoop(grid, center, maxRadius, radius + 1, results \o ring)
    ELSE results

\* a spiral that stops one ring early
getSpiralOneRingLess(grid, center, maxRadius) ==
    getSpiralLoop(grid, center, maxRadius - 1, 1, <<center>>)

getSpiral(grid, center, maxRadius) ==
    getSpiralLoop(grid, center, maxRadius, 1, <<center>>)

-----------------------------------------------------------------------------
(* grid.js: the mutators, on the heap.  H is [grids, maps, cells]; a call    *)
(* returns the heap it leaves, the grid reference it returns (ret) and     *)
(* whether it called the updater it was given (applied).                   *)

\* the grid value a grid reference stands for: its Map with the cell objects read
GridAt(H, g) ==
    LET m == H.maps[H.grids[g].cells]
    IN  [cells |-> [i \in DOMAIN m |-> [key |-> m[i].key, val |-> H.cells[m[i].val]]],
         layout |-> H.grids[g].layout,
         size |-> H.grids[g].size]

\* a setCell that sets the key in the Map of the grid it was given
setCellInPlace(H, g, coord, cell) ==
    LET m == H.grids[g].cells
        ref == Len(H.cells) + 1
    IN  [cells |-> Append(H.cells, [cell EXCEPT !.coord = coord]),
         maps |-> [H.maps EXCEPT ![m] = MapSet(H.maps[m], hash(coord), ref)],
         grids |-> Append(H.grids, H.grids[g]),
         ret |-> Len(H.grids) + 1,
         applied |-> FALSE]

\* a setCell that stores the cell with the coord it came with
setCellAsGiven(H, g, coord, cell) ==
    LET newCells == H.maps[H.grids[g].cells]
        ref == Len(H.cells) + 1
    IN  [cells |-> Append(H.cells, cell),
         maps |-> Append(H.maps, MapSet(newCells, hash(coord), ref)),
         grids |-> Append(H.grids, [H.grids[g] EXCEPT !.cells = Len(H.maps) + 1]),
         ret |-> Len(H.grids) + 1,
         applied |-> FALSE]

\* new Map(grid.cells) then newCells.set(key, {...cell, coord}) and {...grid, cells: newCells}
setCell(H, g, coord, cell) ==
    LET newCells == H.maps[H.grids[g].cells]
        ref == Len(H.cells) + 1
    IN  [cells |-> Append(H.cells, [cell EXCEPT !.coord = coord]),
         maps |-> Append(H.maps, MapSet(newCells, hash(coord), ref)),
         grids |-> Append(H.grids, [H.grids[g] EXCEPT !.cells = Len(H.maps) + 1]),
         ret |-> Len(H.grids) + 1,
         applied |-> FALSE]

\* the updater and map functions handed to updateCell and mapCells, by name; each
\* returns a new cell and leaves the cell it is given alone, but for "identity",
\* which returns the cell it is given
Updaters == {"visit", "move", "identity"}

ApplyUpdater(updater, cell) ==
    CASE updater = "block" -> [cell EXCEPT !.passable = FALSE]
      [] updater = "open" -> [cell EXCEPT !.passable = TRUE]
      [] updater = "visit" -> [cell EXCEPT !.data = ("visited" :> TRUE) @@ cell.data]
      [] updater = "move" -> [cell EXCEPT !.coord = add(cell.coord, DIRECTIONS[1])]
      [] updater = "identity" -> cell

Returned(H, g) ==
    [cells |-> H.cells, maps |-> H.maps, grids |-> H.grids, ret |-> g, applied |-> FALSE]

updateCellUnguarded(H, g, coord, updater) ==
    LET cell == getCell(GridAt(H, g), coord)
        newCell == IF cell = Null
                   THEN ApplyUpdater(updater, NewCell(coord, EmptyData))
                   ELSE ApplyUpdater(updater, cell)
    IN  [setCell(H, g, coord, newCell) EXCEPT !.applied = TRUE]

updateCell(H, g, coord, updater) ==
    LET cell == getCell(GridAt(H, g), coord)
    IN  IF cell = Null THEN Returned(H, g)
        ELSE [setCell(H, g, coord, ApplyUpdater(updater, cell)) EXCEPT !.applied = TRUE]

\* the entities handed to setCellData: with an id, without one, with the empty
\* string for an id, and null
Entities ==
    { [id |-> "e1", hp |-> 10], [id |-> "e1", hp |-> 7], [id |-> "e2", hp |-> 3],
      [hp |-> 5], [hp |-> 6, attack |-> 2], [id |-> "", hp |-> 1], Null }

\* if (entity.id): the entity has an id and it is truthy; ids are strings here, of
\* which the empty one is falsy
HasId(entity) == "id" \in DOMAIN entity /\ entity.id # ""

\* entity === undefined || entity === null
IsNullish(entity) == entity = Null

RECURSIVE setCellDataLoop(_, _)
setCellDataLoop(newData, entities) ==
    IF entities = <<>> THEN newData
    ELSE LET entity == Head(entities)
         IN  IF IsNullish(entity)
             THEN setCellDataLoop(newData, Tail(entities))
             ELSE IF HasId(entity)
             THEN setCellDataLoop((entity.id :> entity) @@ newData, Tail(entities))
             ELSE setCellDataLoop(entity @@ newData, Tail(entities))

\* a setCellData that starts from an empty data object
setCellDataAfresh(H, g, coord, entities) ==
    LET cell == getCell(GridAt(H, g), coord)
    IN  IF cell = Null THEN Returned(H, g)
        ELSE IF Len(entities) = 0 THEN Returned(H, g)
        ELSE setCell(H, g, coord, [cell EXCEPT !.data = setCellDataLoop(EmptyData, entities)])

setCellData(H, g, coord, entities) ==
    LET cell == getCell(GridAt(H, g), coord)
    IN  IF cell = Null THEN Returned(H, g)
        ELSE IF Len(entities) = 0 THEN Returned(H, g)
        ELSE setCell(H, g, coord, [cell EXCEPT !.data = setCellDataLoop(cell.data, entities)])

removeCellKeeps(H, g, coord) ==
    [cells |-> H.cells,
     maps |-> Append(H.maps, H.maps[H.grids[g].cells]),
     grids |-> Append(H.grids, [H.grids[g] EXCEPT !.cells = Len(H.maps) + 1]),
     ret |-> Len(H.grids) + 1,
     applied |-> FALSE]

removeCell(H, g, coord) ==
    LET newCells == H.maps[H.grids[g].cells]
    IN  [cells |-> H.cells,
         maps |-> Append(H.maps, MapDelete(newCells, hash(coord))),
         grids |-> Append(H.grids, [H.grids[g] EXCEPT !.cells = Len(H.maps) + 1]),
         ret |-> Len(H.grids) + 1,
         applied |-> FALSE]

\* a setPassable that writes to the data of the cell and leaves passable alone
setPassableInData(H, g, coord, passable) == updateCell(H, g, coord, "visit")

setPassable(H, g, coord, passable) ==
    updateCell(H, g, coord, IF passable THEN "open" ELSE "block")

RECURSIVE getObstaclesLoop(_, _, _)
getObstaclesLoop(grid, i, obstacles) ==
    IF i > Len(grid.cells) THEN obstacles
    ELSE LET cell == grid.cells[i].val
         IN  getObstaclesLoop(grid, i + 1,
                              IF ~cell.passable THEN Append(obstacles, cell.coord)
                              ELSE obstacles)

\* a scan that collects the cells that are passable
getObstaclesPassable(grid) ==
    SelectSeq([i \in DOMAIN grid.cells |-> grid.cells[i].val.coord],
              LAMBDA c : isPassable(grid, c))

getObstacles(grid) == getObstaclesLoop(grid, 1, <<>>)

\* newCells.set(key, fn(cell)) for every entry: the cell fn returns is a new object,
\* but for the identity, whose result is the cell object of the input grid
RECURSIVE mapCellsLoop(_, _, _, _, _)
mapCellsLoop(old, i, fn, newCells, heapCells) ==
    IF i > Len(old) THEN [map |-> newCells, cells |-> heapCells]
    ELSE IF fn = "identity"
    THEN mapCellsLoop(old, i + 1, fn, MapSet(newCells, old[i].key, old[i].val), heapCells)
    ELSE mapCellsLoop(old, i + 1, fn,
                      MapSet(newCells, old[i].key, Len(heapCells) + 1),
                      Append(heapCells, ApplyUpdater(fn, heapCells[old[i].val])))

mapCells(H, g, fn) ==
    LET r == mapCellsLoop(H.maps[H.grids[g].cells], 1, fn, <<>>, H.cells)
    IN  [cells |-> r.cells,
         maps |-> Append(H.maps, r.map),
         grids |-> Append(H.grids, [H.grids[g] EXCEPT !.cells = Len(H.maps) + 1]),
         ret |-> Len(H.grids) + 1,
         applied |-> Len(H.maps[H.grids[g].cells]) > 0]

-----------------------------------------------------------------------------
(* The grid store: a constructor's grid, then mutator calls on any grid     *)
(* object made so far.                                                     *)

Heap == [grids |-> grids, maps |-> maps, cells |-> cells]

\* the cell objects, the Map and the grid object a constructor leaves
Construct(grid) ==
    [cells |-> [i \in DOMAIN grid.cells |-> grid.cells[i].val],
     maps |-> << [i \in DOMAIN grid.cells |-> [key |-> grid.cells[i].key, val |-> i]] >>,
     grids |-> << [cells |-> 1, layout |-> grid.layout, size |-> grid.size] >>]

DefaultDatas == {EmptyData, [terrain |-> "grass"]}

InitialGrids ==
    { createHexGrid(StoreRadius, "pointy", EmptyData),
      createGrid(StoreSide, StoreSide, "flat", [terrain |-> "grass"]) }

\* the coordinates the mutators are called with: one that the constructors' grids
\* hold and one that they do not
TargetCoords == {Coord(0, 0, 0), Coord(StoreRadius + StoreSide, 0, -StoreRadius - StoreSide)}

\* the cells handed to setCell; the coord they carry need not be the target
GivenCells ==
    { [coord |-> Coord(0, 0, 0), passable |-> FALSE, data |-> EmptyData],
      [coord |-> Coord(1, 0, -1), passable |-> TRUE, data |-> [terrain |-> "rock"]] }

EntityLists ==
    { <<>>, << [id |-> "e1", hp |-> 10] >>, << [hp |-> 5] >>,
      << [id |-> "e1", hp |-> 7], [hp |-> 6, attack |-> 2], [id |-> "e2", hp |-> 3] >> }

NoCall == [op |-> "construct", grid |-> 0, coord |-> Coord(0, 0, 0), ret |-> 1,
           applied |-> FALSE, present |-> FALSE, before |-> Null]

Init ==
    /\ \E grid \in InitialGrids :
          LET H == Construct(grid)
          IN  /\ grids = H.grids
              /\ maps = H.maps
              /\ cells = H.cells
              /\ snap = << grid >>
    /\ last = NoCall
    /\ call = Null
    /\ world = Null
    /\ nextId = 0

\* the state a call leaves: the heap, the call's record, and the contents of a
\* newly returned grid object
LeaveWith(op, g, coord, r, given) ==
    /\ grids' = r.grids
    /\ maps' = r.maps
    /\ cells' = r.cells
    /\ last' = [op |-> op, grid |-> g, coord |-> coord, ret |-> r.ret,
                applied |-> r.applied,
                present |-> hasCell(GridAt(Heap, g), coord),
                before |-> GridAt(Heap, g)] @@ given
    /\ snap' = IF r.ret > Len(snap) THEN Append(snap, GridAt(r, r.ret)) ELSE snap
    /\ UNCHANGED <<call, world, nextId>>

Leave(op, g, coord, r) == LeaveWith(op, g, coord, r, <<>>)

CanCall == Len(grids) <= MaxCalls

SetCell ==
    /\ CanCall
    /\ \E g \in DOMAIN grids, coord \in TargetCoords, cell \in GivenCells :
          LeaveWith("setCell", g, coord, setCell(Heap, g, coord, cell), [cell |-> cell])

UpdateCell ==
    /\ CanCall
    /\ \E g \in DOMAIN grids, coord \in TargetCoords, updater \in Updaters :
          LeaveWith("updateCell", g, coord, updateCell(Heap, g, coord, updater),
                    [updater |-> updater])

SetCellData ==
    /\ CanCall
    /\ \E g \in DOMAIN grids, coord \in TargetCoords, entities \in EntityLists :
          Leave("setCellData", g, coord, setCellData(Heap, g, coord, entities))

RemoveCell ==
    /\ CanCall
    /\ \E g \in DOMAIN grids, coord \in TargetCoords :
          Leave("removeCell", g, coord, removeCell(Heap, g, coord))

SetPassable ==
    /\ CanCall
    /\ \E g \in DOMAIN grids, coord \in TargetCoords, passable \in BOOLEAN :
          LeaveWith("setPassable", g, coord, setPassable(Heap, g, coord, passable),
                    [passable |-> passable])

MapCells ==
    /\ CanCall
    /\ \E g \in DOMAIN grids, fn \in Updaters :
          Leave("mapCells", g, Coord(0, 0, 0), mapCells(Heap, g, fn))

Next == SetCell \/ UpdateCell \/ SetCellData \/ RemoveCell \/ SetPassable \/ MapCells

Spec == Init /\ [][Next]_vars

\* the calls that write one cell or remove one
NextWrites == SetCell \/ UpdateCell \/ SetCellData \/ RemoveCell \/ SetPassable

SpecWrites == Init /\ [][NextWrites]_vars

-----------------------------------------------------------------------------
(* The coordinate functions and the constructors: one call, with any input  *)
(* of the bounded sets; call holds the call and its result.                 *)

\* the cube coordinates within a distance of the origin
HexRegion(radius) ==
    { c \in { Coord(x, y, -x - y) : x \in -radius..radius, y \in -radius..radius } :
        Abs(c.z) <= radius }

InitGeo ==
    /\ grids = <<>>
    /\ maps = <<>>
    /\ cells = <<>>
    /\ snap = <<>>
    /\ last = NoCall
    /\ call = Null
    /\ world = Null
    /\ nextId = 0

CallCreateGrid ==
    /\ call = Null
    /\ \E width \in 0..MaxSide, height \in 0..MaxSide, layout \in Layouts,
          defaultData \in DefaultDatas :
          call' = [op |-> "createGrid", width |-> width, height |-> height,
                  layout |-> layout,
                  grid |-> createGrid(width, height, layout, defaultData)]
    /\ UNCHANGED <<storeVars, world>>

CallCreateHexGrid ==
    /\ call = Null
    /\ \E radius \in 0..MaxRadius, layout \in Layouts, defaultData \in DefaultDatas :
          call' = [op |-> "createHexGrid", radius |-> radius, layout |-> layout,
                  grid |-> createHexGrid(radius, layout, defaultData)]
    /\ UNCHANGED <<storeVars, world>>

CallCreateCustomGrid ==
    /\ call = Null
    /\ \E pred \in Predicates, layout \in Layouts,
          minX \in -MaxBound..MaxBound, maxX \in -MaxBound..MaxBound,
          minY \in -MaxBound..MaxBound, maxY \in -MaxBound..MaxBound :
          LET bounds == [minX |-> minX, maxX |-> maxX, minY |-> minY, maxY |-> maxY]
          IN  call' = [op |-> "createCustomGrid", pred |-> pred, bounds |-> bounds,
                      layout |-> layout,
                      grid |-> createCustomGrid(pred, bounds, layout, EmptyData)]
    /\ UNCHANGED <<storeVars, world>>

CallOffsetToCube ==
    /\ call = Null
    /\ \E col \in -MaxOffset..MaxOffset, row \in -MaxOffset..MaxOffset, layout \in Layouts :
          LET offset == [col |-> col, row |-> row]
          IN  call' = [op |-> "offsetToCube", offset |-> offset, layout |-> layout,
                      coord |-> offsetToCube(offset, layout),
                      back |-> cubeToOffset(offsetToCube(offset, layout), layout)]
    /\ UNCHANGED <<storeVars, world>>

CallRound ==
    /\ call = Null
    /\ \E nx \in -MaxNum..MaxNum, ny \in -MaxNum..MaxNum, nz \in -MaxNum..MaxNum,
          den \in 1..MaxDen :
          call' = [op |-> "round", input |-> Frac(nx, ny, nz, den),
                  coord |-> round(Frac(nx, ny, nz, den))]
    /\ UNCHANGED <<storeVars, world>>

CallGetLine ==
    /\ call = Null
    /\ \E a \in HexRegion(MaxRadius), b \in HexRegion(MaxRadius) :
          call' = [op |-> "getLine", a |-> a, b |-> b, line |-> getLine(a, b)]
    /\ UNCHANGED <<storeVars, world>>

CallGetNeighbors ==
    /\ call = Null
    /\ \E radius \in 0..MaxRadius, coord \in HexRegion(MaxRadius), passableOnly \in BOOLEAN :
          LET grid == createHexGrid(radius, "pointy", EmptyData)
          IN  call' = [op |-> "getNeighbors", grid |-> grid, coord |-> coord,
                      passableOnly |-> passableOnly,
                      neighbors |-> getNeighbors(grid, coord, passableOnly)]
    /\ UNCHANGED <<storeVars, world>>

CallCubeToOffset ==
    /\ call = Null
    /\ \E coord \in HexRegion(MaxOffset), layout \in Layouts :
          call' = [op |-> "cubeToOffset", coord |-> coord, layout |-> layout,
                   offset |-> cubeToOffset(coord, layout),
                   back |-> offsetToCube(cubeToOffset(coord, layout), layout)]
    /\ UNCHANGED <<storeVars, world>>

\* distance on three coordinates, two at a time
CallDistance ==
    /\ call = Null
    /\ \E a \in HexRegion(MaxTriangle), b \in HexRegion(MaxTriangle) \cup {Coord(3, -2, -1)},
          c \in HexRegion(MaxTriangle) :
          call' = [op |-> "distance", a |-> a, b |-> b, c |-> c,
                   ab |-> distance(a, b), ba |-> distance(b, a),
                   bc |-> distance(b, c), ac |-> distance(a, c)]
    /\ UNCHANGED <<storeVars, world>>

NextGeo ==
    \/ CallCreateGrid
    \/ CallCreateHexGrid
    \/ CallCreateCustomGrid
    \/ CallOffsetToCube
    \/ CallRound
    \/ CallGetLine
    \/ CallGetNeighbors
    \/ CallCubeToOffset
    \/ CallDistance

SpecGeo == InitGeo /\ [][NextGeo]_vars

-----------------------------------------------------------------------------
(* neighbors.js: getReachable *)

\* a scan of the neighbours that never looks at the visited set
RECURSIVE getReachableNeighborsRevisit(_, _, _)
getReachableNeighborsRevisit(neighbors, n, st) ==
    IF n > Len(neighbors) THEN st
    ELSE getReachableNeighborsRevisit(neighbors, n + 1,
             [visited |-> st.visited \cup {hash(neighbors[n])},
              fringe |-> Append(st.fringe, neighbors[n])])

\* one fringe: the unvisited passable neighbours of the coordinates of the previous
\* fringe, in order; st is [visited, fringe]
RECURSIVE getReachableNeighbors(_, _, _)
getReachableNeighbors(neighbors, n, st) ==
    IF n > Len(neighbors) THEN st
    ELSE LET key == hash(neighbors[n])
         IN  IF key \notin st.visited
             THEN getReachableNeighbors(neighbors, n + 1,
                      [visited |-> st.visited \cup {key},
                       fringe |-> Append(st.fringe, neighbors[n])])
             ELSE getReachableNeighbors(neighbors, n + 1, st)

RECURSIVE getReachableFringe(_, _, _, _)
getReachableFringe(grid, previous, i, st) ==
    IF i > Len(previous) THEN st
    ELSE getReachableFringe(grid, previous, i + 1,
             getReachableNeighbors(getNeighbors(grid, previous[i], TRUE), 1, st))

RECURSIVE getReachableLoop(_, _, _, _, _)
getReachableLoop(grid, maxDistance, k, visited, fringes) ==
    IF k <= maxDistance
    THEN LET st == getReachableFringe(grid, fringes[k], 1,
                                      [visited |-> visited, fringe |-> <<>>])
         IN  getReachableLoop(grid, maxDistance, k + 1, st.visited,
                              Append(fringes, st.fringe))
    ELSE fringes

RECURSIVE Flatten(_)
Flatten(seqs) == IF seqs = <<>> THEN <<>> ELSE Head(seqs) \o Flatten(Tail(seqs))

getReachableOneLayerLess(grid, start, maxDistance) ==
    Flatten(getReachableLoop(grid, maxDistance - 1, 1, {hash(start)}, << <<start>> >>))

getReachable(grid, start, maxDistance) ==
    Flatten(getReachableLoop(grid, maxDistance, 1, {hash(start)}, << <<start>> >>))

-----------------------------------------------------------------------------
(* pathfinding.js *)

\* the step cost functions handed to findPath, by name; "uniform" is the default
CostFns == {"uniform", "terrain", "slope"}

costFn(name, from, to) ==
    CASE name = "uniform" -> 1
      [] name = "terrain" -> 1 + ((to.x + 2 * to.z) % 3)
      [] name = "slope" -> IF to.z # from.z THEN 0 ELSE 2

\* the heuristics handed to findPath, by name; "distance" is the default
Heuristics == {"distance", "zero"}

heuristic(name, a, b) ==
    CASE name = "distance" -> distance(a, b)
      [] name = "zero" -> 0

\* items.push({item, priority}) then a stable sort by priority: the new item
\* stands after every item whose priority is not greater
enqueueDescending(items, item, priority) ==
    LET before == SelectSeq(items, LAMBDA e : e.priority >= priority)
        after == SelectSeq(items, LAMBDA e : e.priority < priority)
    IN  before \o << [item |-> item, priority |-> priority] >> \o after

enqueue(items, item, priority) ==
    LET before == SelectSeq(items, LAMBDA e : e.priority <= priority)
        after == SelectSeq(items, LAMBDA e : e.priority > priority)
    IN  before \o << [item |-> item, priority |-> priority] >> \o after

\* a JavaScript array, as findPath returns it when it does not return null
Array(elements) == [array |-> elements]

\* the search before the first iteration of the loop
findPathStart(start) ==
    [frontier |-> enqueue(<<>>, start, 0),
     cameFrom |-> MapSet(<<>>, hash(start), Null),
     costSoFar |-> MapSet(<<>>, hash(start), 0),
     status |-> "searching"]

\* a for loop that also takes a neighbour whose new cost ties with its known cost
RECURSIVE findPathNeighborsOnTies(_, _, _, _, _, _)
findPathNeighborsOnTies(neighbors, n, current, end, options, st) ==
    IF n > Len(neighbors) THEN st
    ELSE LET next == neighbors[n]
             nextKey == hash(next)
             newCost == MapGet(st.costSoFar, hash(current))
                           + costFn(options.costFn, current, next)
         IN  IF ~MapHas(st.costSoFar, nextKey) \/ newCost <= MapGet(st.costSoFar, nextKey)
             THEN findPathNeighborsOnTies(neighbors, n + 1, current, end, options,
                      [st EXCEPT
                         !.costSoFar = MapSet(@, nextKey, newCost),
                         !.frontier = enqueue(@, next,
                                         newCost + heuristic(options.heuristic, next, end)),
                         !.cameFrom = MapSet(@, nextKey, current)])
             ELSE findPathNeighborsOnTies(neighbors, n + 1, current, end, options, st)

\* the for loop over the neighbours of current
RECURSIVE findPathNeighbors(_, _, _, _, _, _)
findPathNeighbors(neighbors, n, current, end, options, st) ==
    IF n > Len(neighbors) THEN st
    ELSE LET next == neighbors[n]
             nextKey == hash(next)
             newCost == MapGet(st.costSoFar, hash(current))
                           + costFn(options.costFn, current, next)
         IN  IF ~MapHas(st.costSoFar, nextKey) \/ newCost < MapGet(st.costSoFar, nextKey)
             THEN findPathNeighbors(neighbors, n + 1, current, end, options,
                      [st EXCEPT
                         !.costSoFar = MapSet(@, nextKey, newCost),
                         !.frontier = enqueue(@, next,
                                         newCost + heuristic(options.heuristic, next, end)),
                         !.cameFrom = MapSet(@, nextKey, current)])
             ELSE findPathNeighbors(neighbors, n + 1, current, end, options, st)

\* one iteration of the while loop: dequeue, return when the goal is dequeued,
\* otherwise look at the passable neighbours
findPathIterateStopAtDiscovery(grid, end, options, st) ==
    IF st.frontier = <<>> THEN [st EXCEPT !.status = "exhausted"]
    ELSE LET current == Head(st.frontier).item
             popped == [st EXCEPT !.frontier = Tail(@)]
             looked == findPathNeighbors(getNeighbors(grid, current, TRUE), 1, current,
                                         end, options, popped)
         IN  IF MapHas(looked.cameFrom, hash(end))
             THEN [looked EXCEPT !.status = "found"]
             ELSE looked

\* an iteration that looks at every neighbour in the grid, passable or not
findPathIterateThroughWalls(grid, end, options, st) ==
    IF st.frontier = <<>> THEN [st EXCEPT !.status = "exhausted"]
    ELSE LET current == Head(st.frontier).item
             popped == [st EXCEPT !.frontier = Tail(@)]
         IN  IF hash(current) = hash(end) THEN [popped EXCEPT !.status = "found"]
             ELSE findPathNeighbors(getNeighbors(grid, current, FALSE), 1, current, end,
                                    options, popped)

findPathIterate(grid, end, options, st) ==
    IF st.frontier = <<>> THEN [st EXCEPT !.status = "exhausted"]
    ELSE LET current == Head(st.frontier).item
             popped == [st EXCEPT !.frontier = Tail(@)]
         IN  IF hash(current) = hash(end) THEN [popped EXCEPT !.status = "found"]
             ELSE findPathNeighbors(getNeighbors(grid, current, TRUE), 1, current, end,
                                    options, popped)

RECURSIVE findPathLoop(_, _, _, _)
findPathLoop(grid, end, options, st) ==
    IF st.status # "searching" THEN st
    ELSE findPathLoop(grid, end, options, findPathIterate(grid, end, options, st))

\* while (current) { path.unshift(current); if at start break; current = cameFrom.get(key) }
RECURSIVE reconstructPathLoop(_, _, _, _)
reconstructPathLoop(cameFrom, startKey, current, path) ==
    IF current = Null THEN path
    ELSE IF hash(current) = startKey THEN <<current>> \o path
    ELSE reconstructPathLoop(cameFrom, startKey, MapGet(cameFrom, hash(current)),
                             <<current>> \o path)

reconstructPath(cameFrom, start, end) ==
    reconstructPathLoop(cameFrom, hash(start), end, <<>>)

findPath(grid, start, end, options) ==
    IF equals(start, end) THEN Array(<<start>>)
    ELSE LET st == findPathLoop(grid, end, options, findPathStart(start))
         IN  IF st.status = "found"
             THEN Array(reconstructPath(st.cameFrom, start, end))
             ELSE Null

RECURSIVE getPathCostLoop(_, _, _, _)
getPathCostLoop(path, name, i, totalCost) ==
    IF i < Len(path)
    THEN getPathCostLoop(path, name, i + 1, totalCost + costFn(name, path[i], path[i + 1]))
    ELSE totalCost

\* a sum that leaves out the first step
getPathCostFromSecond(path, name) == getPathCostLoop(path.array, name, 2, 0)

\* for a path that is an array
getPathCost(path, name) == getPathCostLoop(path.array, name, 1, 0)

getPathLength(path) == IF path # Null THEN Len(path.array) ELSE 0

-----------------------------------------------------------------------------
(* The queries: a client constructs a grid, makes cells impassable, and     *)
(* then calls findPath or getReachable once.                               *)

\* a mutator applied to a grid value: the grid it returns, read from the heap
Applied(r) == GridAt(r, r.ret)

InitNav ==
    /\ grids = <<>>
    /\ maps = <<>>
    /\ cells = <<>>
    /\ snap = <<>>
    /\ last = NoCall
    /\ call = Null
    /\ nextId = 0
    /\ \E layout \in Layouts :
          world = [grid |-> createGrid(NavWidth, NavHeight, layout, EmptyData), edits |-> 0]

\* grid = setPassable(grid, coord, false)
Block ==
    /\ call = Null
    /\ world.edits < MaxEdits
    /\ \E coord \in SeqToSet(CellCoords(world.grid)) :
          /\ isPassable(world.grid, coord)
          /\ world' = [grid |-> Applied(setPassable(Construct(world.grid), 1, coord, FALSE)),
                       edits |-> world.edits + 1]
    /\ UNCHANGED <<storeVars, call>>

\* the cost function and heuristic pairs findPath is called with; the first is the
\* default
PathOptions ==
    { [costFn |-> "uniform", heuristic |-> "distance"],
      [costFn |-> "uniform", heuristic |-> "zero"],
      [costFn |-> "terrain", heuristic |-> "distance"],
      [costFn |-> "slope", heuristic |-> "zero"] }

DefaultOptions == [costFn |-> "uniform", heuristic |-> "distance"]

\* findPath, then getPathLength on what it returned and, when that is a path,
\* getPathCost with the cost function of the search
CallFindPath ==
    /\ call = Null
    /\ \E start \in SeqToSet(CellCoords(world.grid)),
          end \in SeqToSet(CellCoords(world.grid)),
          options \in PathOptions :
          \E path \in {findPath(world.grid, start, end, options)} :
             LET found == [op |-> "findPath", start |-> start, end |-> end,
                           options |-> options, path |-> path,
                           length |-> getPathLength(path)]
             IN  call' = IF path # Null
                         THEN found @@ [cost |-> getPathCost(path, options.costFn)]
                         ELSE found
    /\ UNCHANGED <<storeVars, world>>

\* the start coordinates getReachable is called with: the cells of the grid as it
\* was constructed, and one coordinate outside it
ReachStarts ==
    { offsetToCube([col |-> col, row |-> row], world.grid.layout) :
        col \in 0..NavWidth, row \in 0..(NavHeight - 1) }

CallGetReachable ==
    /\ call = Null
    /\ \E start \in ReachStarts, maxDistance \in 0..MaxDistance :
          call' = [op |-> "getReachable", start |-> start, maxDistance |-> maxDistance,
                   reachable |-> getReachable(world.grid, start, maxDistance)]
    /\ UNCHANGED <<storeVars, world>>

\* getPathCost on any sequence of cells of the grid as it was constructed
CallGetPathCost ==
    /\ call = Null
    /\ world.edits = 0
    /\ \E steps \in SeqsUpTo(SeqToSet(CellCoords(world.grid)), MaxPathLen),
          name \in CostFns :
          call' = [op |-> "getPathCost", path |-> Array(steps), costFn |-> name,
                   cost |-> getPathCost(Array(steps), name)]
    /\ UNCHANGED <<storeVars, world>>

CallGetPathLength ==
    /\ call = Null
    /\ world.edits = 0
    /\ \E path \in {Null} \cup
                    { Array(q) : q \in SeqsUpTo(SeqToSet(CellCoords(world.grid)), MaxPathLen) } :
          call' = [op |-> "getPathLength", path |-> path, length |-> getPathLength(path)]
    /\ UNCHANGED <<storeVars, world>>

NextNav ==
    \/ Block
    \/ CallFindPath
    \/ CallGetReachable
    \/ CallGetPathCost
    \/ CallGetPathLength

SpecNav == InitNav /\ [][NextNav]_vars

-----------------------------------------------------------------------------
(* The cell writes: one setCell or setCellData call on a constructor's grid, *)
(* or on one that an earlier setCellData returned; call holds the grid     *)
(* before, the arguments and the grid returned.                            *)

CallSetCell ==
    /\ call = Null
    /\ \E before \in InitialGrids, coord \in TargetCoords \cup {Coord(1, 0, -1)},
          cell \in GivenCells :
          LET r == setCell(Construct(before), 1, coord, cell)
          IN  call' = [op |-> "setCell", before |-> before, coord |-> coord,
                       cell |-> cell, same |-> r.ret = 1, grid |-> Applied(r)]
    /\ UNCHANGED <<storeVars, world>>

CallSetCellData ==
    /\ call = Null
    /\ \E grid \in InitialGrids, coord \in TargetCoords, earlier \in EntityLists,
          entities \in SeqsUpTo(Entities, MaxEntities) :
          LET before == Applied(setCellData(Construct(grid), 1, coord, earlier))
              r == setCellData(Construct(before), 1, coord, entities)
          IN  call' = [op |-> "setCellData", before |-> before, coord |-> coord,
                       entities |-> entities, same |-> r.ret = 1, grid |-> Applied(r)]
    /\ UNCHANGED <<storeVars, world>>

NextCell == CallSetCell \/ CallSetCellData

SpecCell == InitGeo /\ [][NextCell]_vars

-----------------------------------------------------------------------------
(* The sight and ring queries: a client constructs a grid, makes cells       *)
(* impassable, and then calls one query.                                   *)

\* the maxRange arguments getVisibleCells is called with
MaxRanges == { Range(n) : n \in 0..MaxDistance } \cup {Infinity}

QueryHasLineOfSight ==
    /\ call = Null
    /\ \E coordA \in ReachStarts, coordB \in ReachStarts :
          call' = [op |-> "hasLineOfSight", coordA |-> coordA, coordB |-> coordB,
                   result |-> hasLineOfSight(world.grid, coordA, coordB)]
    /\ UNCHANGED <<storeVars, world>>

QueryGetVisibleCells ==
    /\ call = Null
    /\ \E origin \in ReachStarts, maxRange \in MaxRanges :
          call' = [op |-> "getVisibleCells", origin |-> origin, maxRange |-> maxRange,
                   visible |-> getVisibleCells(world.grid, origin, maxRange)]
    /\ UNCHANGED <<storeVars, world>>

QueryGetNeighbors ==
    /\ call = Null
    /\ \E coord \in ReachStarts, passableOnly \in BOOLEAN :
          call' = [op |-> "getNeighbors", coord |-> coord, passableOnly |-> passableOnly,
                   neighbors |-> getNeighbors(world.grid, coord, passableOnly)]
    /\ UNCHANGED <<storeVars, world>>

QueryGetRing ==
    /\ call = Null
    /\ \E center \in ReachStarts, radius \in 0..MaxDistance :
          call' = [op |-> "getRing", center |-> center, radius |-> radius,
                   ring |-> getRing(world.grid, center, radius)]
    /\ UNCHANGED <<storeVars, world>>

QueryGetSpiral ==
    /\ call = Null
    /\ \E center \in ReachStarts, maxRadius \in 0..MaxDistance :
          call' = [op |-> "getSpiral", center |-> center, maxRadius |-> maxRadius,
                   spiral |-> getSpiral(world.grid, center, maxRadius)]
    /\ UNCHANGED <<storeVars, world>>

QueryGetRange ==
    /\ call = Null
    /\ \E coord \in ReachStarts, range \in 0..MaxDistance :
          call' = [op |-> "getRange", coord |-> coord, range |-> range,
                   cells |-> getRange(world.grid, coord, range)]
    /\ UNCHANGED <<storeVars, world>>

NextQuery ==
    \/ Block
    \/ QueryHasLineOfSight
    \/ QueryGetVisibleCells
    \/ QueryGetNeighbors
    \/ QueryGetRing
    \/ QueryGetSpiral
    \/ QueryGetRange

SpecQuery == InitNav /\ [][NextQuery]_vars

-----------------------------------------------------------------------------
(* Claims about the grid store (specification Spec) *)

\* the coordinates the reads are tried on
ProbeCoords == HexRegion(StoreRadius + 1) \cup TargetCoords

\* C1: copy-on-write.  Every grid object, of whatever generation, holds after every
\* mutator call the key set, the cells (coord, passable, data), the layout and the
\* size it held when it was returned.
C1_CopyOnWrite ==
    \A g \in DOMAIN grids : GridAt(Heap, g) = snap[g]

\* two mutator calls in a row, the second on the grid the first returned, each
\* returning a grid that differs from its input
C1_Witness ==
    /\ Len(grids) = 3
    /\ grids[2].cells # grids[3].cells
    /\ last.grid = 2
    /\ last.ret = 3
    /\ last.present
    /\ snap[1] # snap[2]
    /\ snap[2] # snap[3]

\* C5: updateCell, setPassable, setCellData and removeCell on a coordinate with no
\* cell return a grid with the cells, layout and size of the input, with no cell at
\* the coordinate, and the updater is not applied.
C5_AbsentIsNoOp ==
    (last.op \in {"updateCell", "setPassable", "setCellData", "removeCell"} /\ ~last.present)
        => /\ GridAt(Heap, last.ret) = last.before
           /\ ~hasCell(GridAt(Heap, last.ret), last.coord)
           /\ getCell(GridAt(Heap, last.ret), last.coord) = Null
           /\ ~last.applied

C5_Witness ==
    /\ last.op = "updateCell"
    /\ ~last.present
    /\ Len(last.before.cells) > 0
    /\ last.ret = last.grid

\* C6: for a coordinate whose hash is no key of the grid, getCell gives null, hasCell
\* false and isPassable false; and after removeCell on a present coordinate these
\* reads give the sentinels there in the returned grid, while every other
\* coordinate reads as in the input grid.
C6_AbsenceSentinels ==
    /\ \A g \in DOMAIN grids : \A c \in ProbeCoords :
          LET grid == GridAt(Heap, g)
          IN  hash(c) \notin MapKeys(grid.cells)
                 => /\ getCell(grid, c) = Null
                    /\ ~hasCell(grid, c)
                    /\ ~isPassable(grid, c)
    /\ (last.op = "removeCell" /\ last.present)
          => LET grid == GridAt(Heap, last.ret)
             IN  /\ getCell(grid, last.coord) = Null
                 /\ ~hasCell(grid, last.coord)
                 /\ ~isPassable(grid, last.coord)
                 /\ \A c \in ProbeCoords \ {last.coord} :
                       /\ getCell(grid, c) = getCell(last.before, c)
                       /\ hasCell(grid, c) = hasCell(last.before, c)
                       /\ isPassable(grid, c) = isPassable(last.before, c)

C6_Witness ==
    /\ last.op = "removeCell"
    /\ last.present
    /\ isPassable(last.before, last.coord)
    /\ Len(GridAt(Heap, last.ret).cells) = Len(last.before.cells) - 1
    /\ Len(last.before.cells) > 1

-----------------------------------------------------------------------------
(* Claims about the constructors and the coordinate functions (SpecGeo) *)

Sum(c) == c.x + c.y + c.z

\* the function the call was of
CallOp == IF call = Null THEN "none" ELSE call.op

\* C7: createHexGrid(r) holds exactly the cube coordinates with x+y+z = 0 and
\* |x|, |y|, |z| <= r, one cell each, 1 + 3r(r+1) cells, every one passable.
C7_HexGridCells ==
    CallOp = "createHexGrid"
        => LET r == call.radius
               coords == CellCoords(call.grid)
           IN  /\ SeqToSet(coords) = { c \in [x : -r..r, y : -r..r, z : -r..r] : Sum(c) = 0 }
               /\ Len(coords) = 1 + 3 * r * (r + 1)
               /\ Cardinality(MapKeys(call.grid.cells)) = Len(coords)
               /\ \A i \in DOMAIN call.grid.cells :
                     /\ call.grid.cells[i].val.passable
                     /\ call.grid.cells[i].key = hash(call.grid.cells[i].val.coord)
               /\ call.grid.layout = call.layout

C7_Witness ==
    /\ CallOp = "createHexGrid"
    /\ call.radius = 1
    /\ Len(call.grid.cells) = 7
    /\ call.layout = "flat"

\* the cube coordinate of an offset position, by the odd-r (pointy) and odd-q (flat)
\* rules: the shifted axis moves by half the other, rounded down
OffsetPosition(col, row, layout) ==
    IF layout = "pointy"
    THEN Coord(col - (row \div 2), -(col - (row \div 2)) - row, row)
    ELSE Coord(col, -col - (row - (col \div 2)), row - (col \div 2))

\* C8: createGrid(width, height) holds exactly width*height cells, all passable, one
\* for each offset position (col, row) with 0 <= col < width and 0 <= row < height,
\* at the cube coordinate of that position, distinct for distinct positions.
C8_RectGridCells ==
    CallOp = "createGrid"
        => LET w == call.width
               h == call.height
               coords == CellCoords(call.grid)
               positions == (0..(w - 1)) \X (0..(h - 1))
           IN  /\ Len(coords) = w * h
               /\ SeqToSet(coords) =
                     { OffsetPosition(p[1], p[2], call.layout) : p \in positions }
               /\ SeqToSet(coords) =
                     { offsetToCube([col |-> p[1], row |-> p[2]], call.layout) : p \in positions }
               /\ Cardinality(SeqToSet(coords)) = w * h
               /\ Cardinality(MapKeys(call.grid.cells)) = w * h
               /\ \A i \in DOMAIN call.grid.cells :
                     /\ call.grid.cells[i].val.passable
                     /\ call.grid.cells[i].key = hash(call.grid.cells[i].val.coord)

C8_Witness ==
    /\ CallOp = "createGrid"
    /\ call.width = 3
    /\ call.height = 3
    /\ Len(call.grid.cells) = 9

\* the coordinates a call produced
Produced ==
    CASE call = Null -> {}
      [] CallOp \in {"createGrid", "createHexGrid", "createCustomGrid"} ->
            SeqToSet(CellCoords(call.grid))
      [] CallOp \in {"offsetToCube", "round"} -> {call.coord}
      [] CallOp = "getLine" -> SeqToSet(call.line)
      [] CallOp = "getNeighbors" -> SeqToSet(call.neighbors)
      [] CallOp = "cubeToOffset" -> {call.back}
      [] OTHER -> {}

\* C9: every coordinate a constructor or a conversion produces has x+y+z = 0: the
\* cells of createGrid, createHexGrid and createCustomGrid, the results of
\* offsetToCube and of round (whatever the input sums to), and the elements of
\* getLine and getNeighbors.
C9_CubeInvariant ==
    \A c \in Produced : Sum(c) = 0

\* round on a fractional input that does not sum to 0 and whose three roundings do
\* not sum to 0 either
C9_Witness ==
    /\ CallOp = "round"
    /\ call.input.den > 1
    /\ Sum(call.input) # 0
    /\ Sum(roundings(call.input)) # 0

\* the result of round when it recomputes the given axis from the roundings of the
\* other two
Recomputed(c, axis) ==
    LET r == roundings(c)
    IN  CASE axis = "x" -> Coord(-r.y - r.z, r.y, r.z)
          [] axis = "y" -> Coord(r.x, -r.x - r.z, r.z)
          [] axis = "z" -> Coord(r.x, r.y, -r.x - r.y)

\* the rounding error of an axis, times the denominator
Diff(c, axis) ==
    CASE axis = "x" -> Abs(MathRound(c.x, c.den) * c.den - c.x)
      [] axis = "y" -> Abs(MathRound(c.y, c.den) * c.den - c.y)
      [] axis = "z" -> Abs(MathRound(c.z, c.den) * c.den - c.z)

\* C10 as claimed: round recomputes x only when x's error is strictly greater than
\* both others, otherwise y only when y's error is strictly greater than both
\* others, otherwise z.
C10_PrecedenceAsClaimed ==
    CallOp = "round"
        => LET c == call.input
           IN  call.coord =
                  Recomputed(c,
                      IF Diff(c, "x") > Diff(c, "y") /\ Diff(c, "x") > Diff(c, "z") THEN "x"
                      ELSE IF Diff(c, "y") > Diff(c, "x") /\ Diff(c, "y") > Diff(c, "z") THEN "y"
                      ELSE "z")

\* C10: round recomputes x only when x's error is strictly greater than both
\* others; otherwise it recomputes y when y's error is strictly greater than z's,
\* also when it ties with x's; otherwise it recomputes z.
C10_Precedence ==
    CallOp = "round"
        => LET c == call.input
           IN  call.coord =
                  Recomputed(c,
                      IF Diff(c, "x") > Diff(c, "y") /\ Diff(c, "x") > Diff(c, "z") THEN "x"
                      ELSE IF Diff(c, "y") > Diff(c, "z") THEN "y"
                      ELSE "z")

\* round on an input where x's and y's errors tie above z's and the choice of the
\* axis shows in the result
C10_Witness ==
    /\ CallOp = "round"
    /\ Diff(call.input, "x") = Diff(call.input, "y")
    /\ Diff(call.input, "y") > Diff(call.input, "z")
    /\ call.coord = Recomputed(call.input, "y")
    /\ call.coord # Recomputed(call.input, "z")

-----------------------------------------------------------------------------
(* Claims about the queries (SpecNav) *)

\* the coordinates of the cells of the grid that are passable
PassableCells(grid) ==
    { grid.cells[i].val.coord : i \in { j \in DOMAIN grid.cells : grid.cells[j].val.passable } }

\* the coordinates one hop away from a set: the passable cells at distance 1
Hop(passable, from) ==
    { c \in passable : \E p \in from : distance(p, c) = 1 }

\* the coordinates whose passable-hop count from start is at most k
RECURSIVE BallOver(_, _, _)
BallOver(passable, start, k) ==
    IF k <= 0 THEN {start}
    ELSE LET inner == BallOver(passable, start, k - 1) IN inner \cup Hop(passable, inner)

Ball(grid, start, k) == BallOver(PassableCells(grid), start, k)

\* the passable-hop count from start to end, or -1 when no hops lead there
RECURSIVE HopCountFrom(_, _, _, _)
HopCountFrom(passable, reached, end, k) ==
    IF end \in reached THEN k
    ELSE LET more == reached \cup Hop(passable, reached)
         IN  IF more = reached THEN -1 ELSE HopCountFrom(passable, more, end, k + 1)

HopCount(grid, start, end) == HopCountFrom(PassableCells(grid), {start}, end, 0)

CallIs(op) == call # Null /\ call.op = op

\* C2: with the default cost and heuristic, findPath returns a path whose number of
\* steps is the shortest passable-hop count from start to end, returns null exactly
\* when no passable hops lead from start to end, and returns [start] when start
\* equals end.
C2_ShortestHops ==
    (CallIs("findPath") /\ call.options = DefaultOptions)
        => LET hops == HopCount(world.grid, call.start, call.end)
           IN  /\ (call.path = Null) <=> (hops = -1)
               /\ call.path # Null => Len(call.path.array) - 1 = hops
               /\ call.start = call.end => call.path = Array(<<call.start>>)

\* the default search returns a path that goes around an impassable cell
C2_Witness ==
    /\ CallIs("findPath")
    /\ call.options = DefaultOptions
    /\ call.path # Null
    /\ Len(call.path.array) - 1 > distance(call.start, call.end)
    /\ isPassable(world.grid, call.start)

\* the least total cost of a route from start, for every coordinate: -1 where no
\* route leads; D is the least cost over routes of at most so many steps, and into[c]
\* the coordinates from which one step enters c
MinCostStep(into, name, D) ==
    [ c \in DOMAIN D |->
        LET via == { D[p] + costFn(name, p, c) : p \in { q \in into[c] : D[q] >= 0 } }
            all == via \cup (IF D[c] >= 0 THEN {D[c]} ELSE {})
        IN  IF all = {} THEN -1 ELSE CHOOSE m \in all : \A n \in all : m <= n ]

RECURSIVE MinCostFix(_, _, _)
MinCostFix(into, name, D) ==
    LET E == MinCostStep(into, name, D)
    IN  IF E = D THEN D ELSE MinCostFix(into, name, E)

\* a step enters a passable cell from a coordinate at distance 1
StepsInto(passable, coords) ==
    [ c \in coords |-> IF c \in passable THEN { q \in coords : distance(q, c) = 1 } ELSE {} ]

MinCost(grid, name, start, end) ==
    LET coords == SeqToSet(CellCoords(grid)) \cup {start}
    IN  MinCostFix(StepsInto(PassableCells(grid), coords), name,
                   [ c \in coords |-> IF c = start THEN 0 ELSE -1 ])[end]

\* the heuristic is 0 at the goal, never negative, and falls by at most the step
\* cost along every step into a passable cell: it is consistent, hence admissible
Consistent(grid, options, end) ==
    LET passable == PassableCells(grid)
    IN  /\ heuristic(options.heuristic, end, end) = 0
        /\ \A p \in SeqToSet(CellCoords(grid)) :
              /\ heuristic(options.heuristic, p, end) >= 0
              /\ \A c \in passable :
                    distance(p, c) = 1 =>
                       heuristic(options.heuristic, p, end)
                          <= costFn(options.costFn, p, c) + heuristic(options.heuristic, c, end)

\* C3: for a non-negative step cost and a consistent heuristic, findPath returns a
\* path exactly when a route of passable steps leads from start to end, and the
\* cost of the path, summed by getPathCost with the same cost function, is the least
\* total cost of such a route.
C3_LeastCost ==
    (CallIs("findPath") /\ Consistent(world.grid, call.options, call.end))
        => LET least == MinCost(world.grid, call.options.costFn, call.start, call.end)
           IN  /\ least >= 0 => call.path # Null
               /\ call.path # Null => getPathCost(call.path, call.options.costFn) = least

\* a search by a cost function that is not the default, whose cheapest route takes
\* more steps than the shortest one
C3_Witness ==
    /\ CallIs("findPath")
    /\ call.options.costFn # "uniform"
    /\ Consistent(world.grid, call.options, call.end)
    /\ call.path # Null
    /\ Len(call.path.array) - 1 > HopCount(world.grid, call.start, call.end)

\* C4: getReachable(grid, start, d) holds exactly the coordinates whose passable-hop
\* count from start is at most d.
C4_ReachableExact ==
    CallIs("getReachable")
        => SeqToSet(call.reachable) = Ball(world.grid, call.start, call.maxDistance)

\* a flood fill that an impassable cell keeps from a cell within the distance
C4_Witness ==
    /\ CallIs("getReachable")
    /\ call.maxDistance = 2
    /\ \E c \in SeqToSet(call.reachable) : distance(call.start, c) = 2
    /\ \E c \in PassableCells(world.grid) :
          /\ distance(call.start, c) <= call.maxDistance
          /\ c \notin SeqToSet(call.reachable)

-----------------------------------------------------------------------------
(* Claims about getLine (SpecGeo) *)

\* C11: getLine(a, b) on integer cube coordinates returns distance(a, b) + 1
\* coordinates, the first a and the last b, as round(lerp(a, b, 0)) = a and
\* round(lerp(a, b, 1)) = b, every one with x+y+z = 0; for a = b it returns [a].
C11_LineEndpoints ==
    CallOp = "getLine"
        => /\ Len(call.line) = distance(call.a, call.b) + 1
           /\ equals(call.line[1], call.a)
           /\ equals(call.line[Len(call.line)], call.b)
           /\ round(lerp(call.a, call.b, 0, 1)) = call.a
           /\ round(lerp(call.a, call.b, 1, 1)) = call.b
           /\ \A i \in DOMAIN call.line : Sum(call.line[i]) = 0
           /\ call.a = call.b => call.line = <<call.a>>

\* the line from (0,0,0) to (2,-1,-1): the endpoints and one midpoint between them
C11_Witness ==
    /\ CallOp = "getLine"
    /\ call.a = Coord(0, 0, 0)
    /\ call.b = Coord(2, -1, -1)
    /\ Len(call.line) = 3
    /\ call.line[2] \notin {call.a, call.b}

-----------------------------------------------------------------------------
(* Claims about the sight and ring queries (SpecQuery) *)

\* every coordinate of the line from a to b, both ends included, has a passable cell
ClearLine(grid, a, b) ==
    \A c \in SeqToSet(getLine(a, b)) : c \in PassableCells(grid)

\* C12: hasLineOfSight(grid, a, b) is true exactly when every coordinate of
\* getLine(a, b), the endpoints included, has a cell in the grid that is passable,
\* and false, not an error, otherwise.
C12_LineOfSight ==
    CallIs("hasLineOfSight")
        => /\ call.result \in BOOLEAN
           /\ call.result <=> \A c \in SeqToSet(getLine(call.coordA, call.coordB)) :
                                 /\ c \in SeqToSet(CellCoords(world.grid))
                                 /\ c \in PassableCells(world.grid)

\* two passable cells with an impassable cell on the line between them
C12_Witness ==
    /\ CallIs("hasLineOfSight")
    /\ ~call.result
    /\ call.coordA \in PassableCells(world.grid)
    /\ call.coordB \in PassableCells(world.grid)
    /\ \A c \in SeqToSet(getLine(call.coordA, call.coordB)) :
          c \in SeqToSet(CellCoords(world.grid))

\* C13: getVisibleCells(grid, origin, maxRange) returns exactly the coordinates of
\* the cells within maxRange of origin (all cells when maxRange is omitted) to which
\* the line from origin is clear, each once; so no impassable cell is returned, and
\* nothing is returned when origin is missing or impassable.
C13_VisibleCells ==
    CallIs("getVisibleCells")
        => /\ SeqToSet(call.visible) =
                 { c \in SeqToSet(CellCoords(world.grid)) :
                     /\ call.maxRange.finite => distance(call.origin, c) <= call.maxRange.value
                     /\ ClearLine(world.grid, call.origin, c) }
           /\ Cardinality(SeqToSet(call.visible)) = Len(call.visible)
           /\ SeqToSet(call.visible) \subseteq PassableCells(world.grid)
           /\ call.origin \notin PassableCells(world.grid) => call.visible = <<>>

\* a scan with a finite range that leaves out a passable cell within the range, whose
\* line is blocked, and a cell beyond the range, whose line is clear
C13_Witness ==
    /\ CallIs("getVisibleCells")
    /\ call.maxRange.finite
    /\ Len(call.visible) >= 2
    /\ \E c \in PassableCells(world.grid) :
          /\ distance(call.origin, c) <= call.maxRange.value
          /\ c \notin SeqToSet(call.visible)
    /\ \E c \in PassableCells(world.grid) :
          /\ distance(call.origin, c) > call.maxRange.value
          /\ ClearLine(world.grid, call.origin, c)

\* the candidates of getNeighbors: coord plus each direction, in the order of the
\* directions
Candidates(coord) == [d \in 1..6 |-> add(coord, DIRECTIONS[d])]

\* C14: getNeighbors returns, in the order of the 6 directions, exactly the
\* coord+direction coordinates that have a cell, with passableOnly only those whose
\* cell is passable; at most 6 coordinates, none twice.
C14_Neighbors ==
    CallIs("getNeighbors")
        => LET Kept(c) == /\ c \in SeqToSet(CellCoords(world.grid))
                          /\ call.passableOnly => c \in PassableCells(world.grid)
           IN  /\ call.neighbors = SelectSeq(Candidates(call.coord), Kept)
               /\ Len(call.neighbors) <= 6
               /\ Cardinality(SeqToSet(call.neighbors)) = Len(call.neighbors)

\* a call with passableOnly that leaves out an impassable neighbour and keeps two
\* others
C14_Witness ==
    /\ CallIs("getNeighbors")
    /\ call.passableOnly
    /\ Len(call.neighbors) >= 2
    /\ \E d \in 1..6 :
          /\ hasCell(world.grid, Candidates(call.coord)[d])
          /\ Candidates(call.coord)[d] \notin SeqToSet(call.neighbors)

\* the rings 1..R of a center, one after the other
RECURSIVE RingsUpTo(_, _, _)
RingsUpTo(grid, center, R) ==
    IF R <= 0 THEN <<>> ELSE RingsUpTo(grid, center, R - 1) \o getRing(grid, center, R)

\* the cells of the grid at a distance from a center
AtDistance(grid, center, r) ==
    { c \in SeqToSet(CellCoords(grid)) : distance(center, c) = r }

\* what the ring and the spiral are for every center, with a cell or without
RingAndSpiralShape ==
    /\ CallIs("getRing")
          => /\ SeqToSet(call.ring) = AtDistance(world.grid, call.center, call.radius)
             /\ Cardinality(SeqToSet(call.ring)) = Len(call.ring)
    /\ CallIs("getSpiral")
          => call.spiral = <<call.center>> \o RingsUpTo(world.grid, call.center, call.maxRadius)

\* C15 as claimed: for every center, getRing at radius 0 is [center] and the spiral
\* is, as a set, the union of the rings 0..R.
C15_AsClaimed ==
    /\ RingAndSpiralShape
    /\ (CallIs("getRing") /\ call.radius = 0) => call.ring = <<call.center>>
    /\ CallIs("getSpiral")
          => SeqToSet(call.spiral) =
                UNION { SeqToSet(getRing(world.grid, call.center, r)) : r \in 0..call.maxRadius }

\* C15: getRing is exactly the cells at the distance, and getSpiral is [center]
\* followed by the rings 1..R; for a center that has a cell, getRing at radius 0 is
\* [center] and the spiral is, as a set, the union of the rings 0..R; for a center
\* without a cell, getRing at radius 0 is empty while the spiral still starts with
\* the center.
C15_RingsAndSpiral ==
    /\ RingAndSpiralShape
    /\ (CallIs("getRing") /\ call.radius = 0)
          => call.ring = IF hasCell(world.grid, call.center) THEN <<call.center>> ELSE <<>>
    /\ CallIs("getSpiral")
          => /\ call.spiral[1] = call.center
             /\ SeqToSet(call.spiral) =
                   {call.center} \cup
                   UNION { SeqToSet(getRing(world.grid, call.center, r)) : r \in 0..call.maxRadius }
             /\ hasCell(world.grid, call.center)
                   => SeqToSet(call.spiral) =
                         UNION { SeqToSet(getRing(world.grid, call.center, r)) :
                                   r \in 0..call.maxRadius }

\* a spiral of two rings round a center that has no cell
C15_Witness ==
    /\ CallIs("getSpiral")
    /\ call.maxRadius = 2
    /\ ~hasCell(world.grid, call.center)
    /\ getRing(world.grid, call.center, 1) # <<>>
    /\ getRing(world.grid, call.center, 2) # <<>>
    /\ Len(call.spiral) > 2

-----------------------------------------------------------------------------
(* Claims about distance and the offset conversions (SpecGeo) *)

\* |dx| + |dy| + |dz|, which distance halves
AxisSum(a, b) == Abs(a.x - b.x) + Abs(a.y - b.y) + Abs(a.z - b.z)

\* C16: for integer cube coordinates with x+y+z = 0, distance is a non-negative
\* integer, symmetric, 0 exactly between equal coordinates, and obeys the triangle
\* inequality; distance((0,0,0), (3,-2,-1)) = 3.
C16_DistanceMetric ==
    CallOp = "distance"
        => /\ AxisSum(call.a, call.b) % 2 = 0
           /\ 2 * call.ab = AxisSum(call.a, call.b)
           /\ call.ab \in Nat
           /\ call.ab = call.ba
           /\ (call.ab = 0) <=> (call.a = call.b)
           /\ call.ac <= call.ab + call.bc
           /\ (call.a = Coord(0, 0, 0) /\ call.b = Coord(3, -2, -1)) => call.ab = 3

\* the distance of the example, and a triangle whose two sides are together longer
\* than the third
C16_Witness ==
    /\ CallOp = "distance"
    /\ call.a = Coord(0, 0, 0)
    /\ call.b = Coord(3, -2, -1)
    /\ call.ab = 3
    /\ call.ac > 0
    /\ call.ac < call.ab + call.bc

\* C17: cubeToOffset and offsetToCube are inverses of one another in both layouts:
\* offsetToCube(cubeToOffset(c)) = c for every integer cube coordinate with
\* x+y+z = 0, and cubeToOffset(offsetToCube(o)) = o for every integer offset.
C17_OffsetRoundTrip ==
    /\ CallOp = "cubeToOffset" => call.back = call.coord
    /\ CallOp = "offsetToCube" => call.back = call.offset

\* a cube coordinate with an odd negative row in the pointy layout, and back
C17_Witness ==
    /\ CallOp = "cubeToOffset"
    /\ call.layout = "pointy"
    /\ call.coord.z < 0
    /\ call.coord.z % 2 = 1
    /\ call.offset.col # call.coord.x
    /\ call.back = call.coord

-----------------------------------------------------------------------------
(* Claims about setCell and setCellData (SpecCell) *)

\* every entry but the one of the call's coord is in the returned grid as it was in
\* the grid before, and the layout and size are kept
OtherCellsKept ==
    /\ MapKeys(call.grid.cells) \ {hash(call.coord)}
          = MapKeys(call.before.cells) \ {hash(call.coord)}
    /\ \A k \in MapKeys(call.before.cells) \ {hash(call.coord)} :
          MapGet(call.grid.cells, k) = MapGet(call.before.cells, k)
    /\ call.grid.layout = call.before.layout
    /\ call.grid.size = call.before.size

\* C18: setCell(grid, coord, cell) returns a grid whose entry for coord holds the
\* supplied cell's passable and data with coord for its coord field, whatever coord
\* the supplied cell carried; every other entry is as in the input grid, and an
\* entry is added when coord had none.
C18_SetCell ==
    CallOp = "setCell"
        => /\ getCell(call.grid, call.coord)
                 = [coord |-> call.coord, passable |-> call.cell.passable,
                    data |-> call.cell.data]
           /\ OtherCellsKept
           /\ Cardinality(MapKeys(call.grid.cells)) = Len(call.grid.cells)
           /\ Len(call.grid.cells) =
                 IF hasCell(call.before, call.coord)
                 THEN Len(call.before.cells) ELSE Len(call.before.cells) + 1

\* a cell that carries another coord, set at a coordinate that had no cell
C18_Witness ==
    /\ CallOp = "setCell"
    /\ ~hasCell(call.before, call.coord)
    /\ call.cell.coord # call.coord
    /\ getCell(call.grid, call.coord).coord = call.coord
    /\ Len(call.grid.cells) = Len(call.before.cells) + 1

\* what an entity writes into data: itself under its id when it has an identifying
\* id, its own fields when it has none, nothing when it is null
Writes(entity) ==
    IF entity = Null THEN <<>>
    ELSE IF "id" \in DOMAIN entity /\ entity.id # "" THEN (entity.id :> entity)
    ELSE entity

\* the data a cell holds after the entities are written over its prior data: under
\* each key the value of the last entity that writes it, else the prior value
DataAfter(prior, entities) ==
    LET Writers(k) == { i \in DOMAIN entities : k \in DOMAIN Writes(entities[i]) }
        Last(k) == CHOOSE i \in Writers(k) : \A j \in Writers(k) : j <= i
        keys == DOMAIN prior \cup UNION { DOMAIN Writes(entities[i]) : i \in DOMAIN entities }
    IN  [ k \in keys |-> IF Writers(k) # {} THEN Writes(entities[Last(k)])[k] ELSE prior[k] ]

\* C19: for an existing cell, setCellData stores each entity with an identifying id
\* under that id, replacing an earlier entity of that id and keeping every other data
\* key, and merges the fields of an entity without an id into data; the cell's coord
\* and passable and all other cells are unchanged; with no entities the grid itself
\* is returned.
C19_SetCellData ==
    (CallOp = "setCellData" /\ hasCell(call.before, call.coord))
        => LET was == getCell(call.before, call.coord)
               now == getCell(call.grid, call.coord)
           IN  /\ now # Null
               /\ DOMAIN now.data = DOMAIN DataAfter(was.data, call.entities)
               /\ \A k \in DOMAIN now.data :
                     now.data[k] = DataAfter(was.data, call.entities)[k]
               /\ now.coord = was.coord
               /\ now.passable = was.passable
               /\ OtherCellsKept
               /\ call.entities = <<>> => (call.same /\ call.grid = call.before)

\* an entity of an id that the cell's data already holds replaces it, next to a
\* merged field and another entity that stay
C19_Witness ==
    /\ CallOp = "setCellData"
    /\ hasCell(call.before, call.coord)
    /\ Len(call.entities) = 1
    /\ call.entities[1] = [id |-> "e1", hp |-> 10]
    /\ DOMAIN getCell(call.before, call.coord).data = {"e1", "e2", "hp", "attack"}
    /\ getCell(call.before, call.coord).data["e1"] = [id |-> "e1", hp |-> 7]
    /\ getCell(call.grid, call.coord).data["e1"] = [id |-> "e1", hp |-> 10]
    /\ getCell(call.grid, call.coord).data["e2"] = [id |-> "e2", hp |-> 3]
    /\ getCell(call.grid, call.coord).data["hp"] = 6

-----------------------------------------------------------------------------
(* Claims about getPathCost and getPathLength (SpecNav) *)

\* the cost of the steps of a sequence of cells, the last step first
RECURSIVE StepCosts(_, _)
StepCosts(q, name) ==
    IF Len(q) <= 1 THEN 0
    ELSE StepCosts(SubSeq(q, 1, Len(q) - 1), name) + costFn(name, q[Len(q) - 1], q[Len(q)])

\* C20: getPathCost is the sum of the cost function over the consecutive pairs of the
\* path, 0 for a path of at most one cell; getPathLength is 0 for null and the number
\* of cells otherwise; so a path that findPath returns with the default cost has
\* getPathCost = getPathLength - 1.
C20_PathCostAndLength ==
    /\ CallIs("getPathCost")
          => /\ call.cost = StepCosts(call.path.array, call.costFn)
             /\ Len(call.path.array) <= 1 => call.cost = 0
    /\ CallIs("getPathLength")
          => call.length = IF call.path = Null THEN 0 ELSE Len(call.path.array)
    /\ (CallIs("findPath") /\ call.options.costFn = "uniform" /\ call.path # Null)
          => /\ call.length = Len(call.path.array)
             /\ call.cost = call.length - 1

\* a default search that returns a path of three cells or more, of cost one less
C20_Witness ==
    /\ CallIs("findPath")
    /\ call.options = DefaultOptions
    /\ call.path # Null
    /\ call.length >= 3
    /\ call.cost = call.length - 1

-----------------------------------------------------------------------------
(* entities.js: the entity factory and its module-level counter *)

\* the component records createEntity is called with: none, one component, and a
\* record that brings an id of its own
Components == { EmptyData, [health |-> 1], [id |-> "entity-0"] }

\* const id = `entity-${nextId}`
mintId(counter) == "entity-" \o ToString(counter)

\* createEntity(components): mints an id from the counter, increments the counter and
\* returns { id, ...components }; a later property of the literal replaces an earlier
\* one of the same name
createEntity(counter, components) ==
    [ret |-> components @@ [id |-> mintId(counter)], nextId |-> counter + 1]

InitEntity ==
    /\ grids = <<>>
    /\ maps = <<>>
    /\ cells = <<>>
    /\ snap = <<>>
    /\ last = NoCall
    /\ call = Null
    /\ world = [made |-> <<>>]
    /\ nextId = 0

\* entity = createEntity(components); the client keeps every entity it was given
CreateEntity ==
    /\ Len(world.made) < MaxCreated
    /\ \E components \in Components :
          LET r == createEntity(nextId, components)
              made == [op |-> "createEntity", components |-> components,
                       minted |-> mintId(nextId), ret |-> r.ret]
          IN  /\ nextId' = r.nextId
              /\ call' = made
              /\ world' = [made |-> Append(world.made, made)]
    /\ UNCHANGED <<grids, maps, cells, last, snap>>

\* resetIds(): nextId = 0
ResetIds ==
    /\ nextId' = 0
    /\ call' = [op |-> "resetIds"]
    /\ UNCHANGED <<grids, maps, cells, last, snap, world>>

NextEntity == CreateEntity \/ ResetIds

SpecEntity == InitEntity /\ [][NextEntity]_vars

-----------------------------------------------------------------------------
(* C21: purity of the exported functions *)

\* C21: every exported function is pure, createEntity included: two createEntity calls
\* with the same components return equal entities, whatever calls happened in between.
C21_Pure ==
    \A i, j \in DOMAIN world.made :
        world.made[i].components = world.made[j].components
            => world.made[i].ret = world.made[j].ret

\* two createEntity calls with the same components have returned
C21_Witness ==
    \E i, j \in DOMAIN world.made :
        /\ i < j
        /\ world.made[i].components = world.made[j].components

-----------------------------------------------------------------------------
(* C29: the ids createEntity hands out *)

\* C29: over any sequence of createEntity and resetIds calls no two returned entities
\* carry the same id, and each returned id is the one minted from the counter.
C29_UniqueIds ==
    /\ \A i, j \in DOMAIN world.made :
          i # j => world.made[i].ret.id # world.made[j].ret.id
    /\ \A i \in DOMAIN world.made : world.made[i].ret.id = world.made[i].minted

\* a second entity was created after resetIds
C29_Witness ==
    /\ Len(world.made) >= 2
    /\ nextId = 1

-----------------------------------------------------------------------------
(* findPath step by step: one iteration of the search loop, or one iteration *)
(* of the loop of reconstructPath, is one step; the client then hands what   *)
(* findPath returned to getPathLength and getPathCost.                       *)

\* the position of the client: "idle" before findPath is called, "search" in the
\* while loop of findPath, "reconstruct" in the while loop of reconstructPath,
\* "returned" when findPath has returned, "measured" after getPathLength and getPathCost
Pc == IF call = Null THEN "idle" ELSE call.pc

InitSearch ==
    /\ grids = <<>>
    /\ maps = <<>>
    /\ cells = <<>>
    /\ snap = <<>>
    /\ last = NoCall
    /\ call = Null
    /\ nextId = 0
    /\ world = [grid |-> createGrid(SearchSide, SearchSide, "pointy", EmptyData),
                edits |-> 0]

\* the coordinates findPath is called with: the cells of the grid, blocked ones
\* included, and one coordinate next to the grid that is not a cell of it
SearchCoords ==
    SeqToSet(CellCoords(world.grid))
        \cup { offsetToCube([col |-> SearchSide, row |-> 0], world.grid.layout) }

\* findPath up to the while loop
EnterFindPath ==
    /\ call = Null
    /\ \E start \in SearchCoords, end \in SearchCoords, options \in PathOptions :
          LET entered == [op |-> "findPath", start |-> start, end |-> end,
                          options |-> options, current |-> Null, path |-> <<>>]
          IN  call' = IF equals(start, end)
                      THEN entered @@ [pc |-> "returned", result |-> Array(<<start>>),
                                       st |-> Null]
                      ELSE entered @@ [pc |-> "search", result |-> Null,
                                       st |-> findPathStart(start)]
    /\ UNCHANGED <<storeVars, world>>

\* one iteration of while (!frontier.isEmpty()), or the return null after it
IterateFindPath ==
    /\ Pc = "search"
    /\ LET st == findPathIterate(world.grid, call.end, call.options, call.st)
       IN  call' = CASE st.status = "searching" -> [call EXCEPT !.st = st]
                     [] st.status = "found" ->
                            [call EXCEPT !.st = st, !.pc = "reconstruct", !.current = call.end]
                     [] st.status = "exhausted" ->
                            [call EXCEPT !.st = st, !.pc = "returned", !.result = Null]
    /\ UNCHANGED <<storeVars, world>>

\* an iteration of while (current) that never moves current along the links
reconstructPathStepInPlace(cameFrom, startKey, r) == r

\* one iteration of while (current) in reconstructPath, or the return after it
reconstructPathStep(cameFrom, startKey, r) ==
    IF r.current = Null
    THEN [r EXCEPT !.pc = "returned", !.result = Array(r.path)]
    ELSE LET path == <<r.current>> \o r.path
         IN  IF hash(r.current) = startKey
             THEN [r EXCEPT !.path = path, !.pc = "returned", !.result = Array(path)]
             ELSE [r EXCEPT !.path = path,
                            !.current = MapGet(cameFrom, hash(r.current))]

IterateReconstructPath ==
    /\ Pc = "reconstruct"
    /\ call' = reconstructPathStep(call.st.cameFrom, hash(call.start), call)
    /\ UNCHANGED <<storeVars, world>>

\* what a call leaves: a value it returns, or an exception it throws
Returns(value) == [returns |-> value]

Throws(error) == [throws |-> error]

\* getPathCost(path, costFn) on whatever findPath returned: path.length is read
\* before anything else, and reading a property of null throws a TypeError
getPathCostOf(path, name) ==
    IF path = Null THEN Throws("TypeError") ELSE Returns(getPathCost(path, name))

\* getPathLength and getPathCost on what findPath returned
MeasurePath ==
    /\ Pc = "returned"
    /\ call' = [call EXCEPT !.pc = "measured"]
                  @@ [length |-> Returns(getPathLength(call.result)),
                      cost |-> getPathCostOf(call.result, call.options.costFn)]
    /\ UNCHANGED <<storeVars, world>>

NextSearch ==
    \/ Block
    \/ EnterFindPath
    \/ IterateFindPath
    \/ IterateReconstructPath
    \/ MeasurePath

SpecSearch == InitSearch /\ [][NextSearch]_vars

-----------------------------------------------------------------------------
(* C22: the shape of a path findPath returns *)

\* findPath has returned a path
ReturnedPath == Pc \in {"returned", "measured"} /\ call.result # Null

\* the path begins with start, ends with end, moves one hex at a time and visits no
\* coordinate twice
Connects(path, start, end) ==
    /\ Len(path) >= 1
    /\ path[1] = start
    /\ path[Len(path)] = end
    /\ \A i \in 1..(Len(path) - 1) : distance(path[i], path[i + 1]) = 1
    /\ \A i, j \in 1..Len(path) : i # j => path[i] # path[j]

\* C22 as stated: every non-null path of findPath begins with start, ends with end,
\* has consecutive coordinates at distance 1, repeats no coordinate, and every
\* coordinate of it, start included, is an existing passable cell of the grid.
C22_AsClaimed ==
    ReturnedPath =>
        /\ Connects(call.result.array, call.start, call.end)
        /\ \A i \in 1..Len(call.result.array) :
              /\ hasCell(world.grid, call.result.array[i])
              /\ isPassable(world.grid, call.result.array[i])

\* C22: every non-null path of findPath begins with start, ends with end, has
\* consecutive coordinates at distance 1 and repeats no coordinate; every coordinate
\* after the first is an existing passable cell of the grid, and the first is start
\* itself, which findPath never looks up: it may be impassable or no cell at all.
C22_WellFormed ==
    ReturnedPath =>
        /\ Connects(call.result.array, call.start, call.end)
        /\ \A i \in 2..Len(call.result.array) :
              /\ hasCell(world.grid, call.result.array[i])
              /\ isPassable(world.grid, call.result.array[i])

\* a path of several coordinates was returned whose start is not a passable cell
C22_WitnessStart ==
    /\ ReturnedPath
    /\ Len(call.result.array) >= 2
    /\ ~isPassable(world.grid, call.start)

-----------------------------------------------------------------------------
(* C23: termination of findPath *)

\* following the predecessor links from key arrives at the link of start, which is
\* null, within fuel links
RECURSIVE LinksReachStart(_, _, _)
LinksReachStart(cameFrom, key, fuel) ==
    /\ fuel > 0
    /\ MapHas(cameFrom, key)
    /\ \E previous \in {MapGet(cameFrom, key)} :
          \/ previous = Null
          \/ \E previousKey \in {hash(previous)} :
                LinksReachStart(cameFrom, previousKey, fuel - 1)

\* the predecessor links of the running call form no cycle: from every linked
\* coordinate they lead to start in at most as many links as there are entries
LinksAcyclic ==
    Pc \in {"search", "reconstruct"} =>
        \A key \in MapKeys(call.st.cameFrom) :
            LinksReachStart(call.st.cameFrom, key, Len(call.st.cameFrom))

\* the number of links from a coordinate back to start
RECURSIVE LinksToStart(_, _)
LinksToStart(cameFrom, current) ==
    LET previous == MapGet(cameFrom, hash(current))
    IN  IF previous = Null THEN 0
        ELSE CHOOSE links \in { 1 + LinksToStart(cameFrom, p) : p \in {previous} } : TRUE

RECURSIVE TotalCost(_, _)
TotalCost(costSoFar, i) ==
    IF i > Len(costSoFar) THEN 0 ELSE costSoFar[i].val + TotalCost(costSoFar, i + 1)

\* what an iteration of the search loop uses up: it records a coordinate it had no
\* cost for, of which there are at most the cells of the grid and start; or it lowers
\* a recorded cost, which is never negative; or it only takes one item off the frontier
SearchAdvances(before, after) ==
    \/ Len(after.costSoFar) > Len(before.costSoFar)
    \/ /\ Len(after.costSoFar) = Len(before.costSoFar)
       /\ TotalCost(after.costSoFar, 1) < TotalCost(before.costSoFar, 1)
    \/ /\ after.costSoFar = before.costSoFar
       /\ Len(after.frontier) < Len(before.frontier)

\* the quantities that bound the search: no more recorded coordinates than the cells
\* of the grid and start, and no negative cost
SearchBounded ==
    Pc = "search" =>
        /\ Len(call.st.costSoFar) <= Len(CellCoords(world.grid)) + 1
        /\ \A i \in DOMAIN call.st.costSoFar : call.st.costSoFar[i].val >= 0

\* C23: findPath terminates for every start and end, with the default cost and with
\* zero-cost steps: every iteration of the search loop that does not leave the loop
\* (goal popped, or frontier empty) uses up a bounded quantity, so the loop is left
\* after finitely many iterations; the predecessor links never form a cycle, and every
\* iteration of the reconstruction that does not return is one link nearer to start.
C23_Terminates ==
    [][ /\ SearchBounded'
        /\ LinksAcyclic'
        /\ Pc = "search" =>
              \/ Pc' \in {"reconstruct", "returned"}
              \/ Pc' = "search" /\ SearchAdvances(call.st, call'.st)
        /\ Pc = "reconstruct" =>
              \/ Pc' = "returned" /\ call'.result # Null
              \/ /\ Pc' = "reconstruct"
                 /\ call'.current # Null
                 /\ LinksToStart(call.st.cameFrom, call'.current)
                       < LinksToStart(call.st.cameFrom, call.current) ]_vars

\* a search with zero-cost steps has returned a path of three coordinates
C23_Witness ==
    /\ Pc = "returned"
    /\ call.options.costFn = "slope"
    /\ call.result # Null
    /\ Len(call.result.array) >= 3
    /\ getPathCost(call.result, "slope") = 0

-----------------------------------------------------------------------------
(* C24: failure as a sentinel across the pathfinding interface *)

\* a call completed with a number
IsNumber(outcome) == "returns" \in DOMAIN outcome /\ outcome.returns \in Int

\* C24: for every grid, start and end, findPath returns a path or null, and
\* getPathLength and getPathCost applied to that result, the null result included,
\* each complete with a number.
C24_NeverThrows ==
    Pc = "measured" => IsNumber(call.length) /\ IsNumber(call.cost)

\* getPathLength and getPathCost were applied to the null that findPath returned for an
\* end that is no cell of the grid
C24_Witness ==
    /\ Pc = "measured"
    /\ call.result = Null
    /\ ~hasCell(world.grid, call.end)

-----------------------------------------------------------------------------
(* C25: the default heuristic against passable hops, and getReachable in getRange *)

\* C25: for every pair of cells, distance(a, b) is at most the passable-hop count of
\* any route from a to b, and distance to any cell changes by at most 1 across one
\* hop; for a start that is a cell of the grid and a hop budget d >= 0, every
\* coordinate of getReachable(grid, start, d) is also in getRange(grid, start, d).
C25_NeverOverestimates ==
    (CallIs("getRange") /\ hasCell(world.grid, call.coord)) =>
        LET all == SeqToSet(CellCoords(world.grid))
            passable == PassableCells(world.grid)
            a == call.coord
        IN  /\ \A b \in all :
                  LET hops == HopCountFrom(passable, {a}, b, 0)
                  IN  hops # -1 => distance(a, b) <= hops
            /\ \A c \in all :
                  \A n \in SeqToSet(getNeighbors(world.grid, c, TRUE)) :
                      /\ distance(a, n) <= distance(a, c) + 1
                      /\ distance(a, c) <= distance(a, n) + 1
            /\ SeqToSet(getReachable(world.grid, a, call.range))
                  \subseteq SeqToSet(call.cells)

\* getRange from a cell of a grid with an impassable cell, where the passable hops
\* reach several cells but fewer than the range holds
C25_Witness ==
    /\ CallIs("getRange")
    /\ hasCell(world.grid, call.coord)
    /\ world.edits >= 1
    /\ call.range >= 2
    /\ Len(getReachable(world.grid, call.coord, call.range)) >= 3
    /\ Len(getReachable(world.grid, call.coord, call.range)) < Len(call.cells)

-----------------------------------------------------------------------------
(* C26: the order of what getReachable returns *)

\* C26: getReachable returns start first and no coordinate twice, the coordinates
\* stand in non-decreasing passable-hop distance from start, and with maxDistance 0
\* the result is [start].
C26_LayerOrder ==
    CallIs("getReachable") =>
        LET reachable == call.reachable
            passable == PassableCells(world.grid)
            hops == [i \in DOMAIN reachable |->
                        HopCountFrom(passable, {call.start}, reachable[i], 0)]
        IN  /\ Len(reachable) >= 1
            /\ reachable[1] = call.start
            /\ \A i, j \in DOMAIN reachable : i # j => reachable[i] # reachable[j]
            /\ \A i \in DOMAIN reachable : hops[i] >= 0
            /\ \A i \in 1..(Len(reachable) - 1) : hops[i] <= hops[i + 1]
            /\ call.maxDistance = 0 => reachable = <<call.start>>

\* getReachable returned coordinates of three layers, on a grid with an impassable
\* cell
C26_Witness ==
    /\ CallIs("getReachable")
    /\ world.edits >= 1
    /\ call.maxDistance >= 2
    /\ \E i \in DOMAIN call.reachable :
          HopCountFrom(PassableCells(world.grid), {call.start}, call.reachable[i], 0) = 2

-----------------------------------------------------------------------------
(* C27: what setPassable changes *)

\* the keys of a grid in the order of its Map
KeyOrder(grid) == [i \in DOMAIN grid.cells |-> grid.cells[i].key]

\* C27: for a coordinate c present in the grid, of whatever generation the grid is,
\* setPassable(grid, c, p) returns a grid in which the cell at c has passable p
\* (isPassable returns p) and the coord and data it had, and every other cell, the
\* keys, the layout and the size are as in the input grid.
C27_SetPassableFrame ==
    (last.op = "setPassable" /\ last.present) =>
        LET before == last.before
            after == GridAt(Heap, last.ret)
            c == last.coord
        IN  /\ isPassable(after, c) = last.passable
            /\ getCell(after, c).passable = last.passable
            /\ getCell(after, c).coord = getCell(before, c).coord
            /\ getCell(after, c).data = getCell(before, c).data
            /\ KeyOrder(after) = KeyOrder(before)
            /\ \A i \in DOMAIN before.cells :
                  before.cells[i].key # hash(c) => after.cells[i].val = before.cells[i].val
            /\ after.layout = before.layout
            /\ after.size = before.size

\* setPassable(grid, c, false) on a grid that an earlier call returned, for a cell
\* that was passable
C27_Witness ==
    /\ last.op = "setPassable"
    /\ last.present
    /\ ~last.passable
    /\ last.grid >= 2
    /\ isPassable(last.before, last.coord)
    /\ ~isPassable(GridAt(Heap, last.ret), last.coord)

-----------------------------------------------------------------------------
(* C28: getObstacles *)

\* whether the call, if it was one of setPassable, setCell and removeCell, left at its
\* coordinate a cell whose passable is false
LeftImpassable ==
    CASE last.op = "setPassable" -> last.present /\ ~last.passable
      [] last.op = "setCell" -> ~last.cell.passable
      [] last.op = "removeCell" -> FALSE

\* C28: getObstacles returns exactly the coordinates of the cells of the grid whose
\* passable is false, each once; it is empty for the constructor's grid; and after a
\* setPassable, setCell or removeCell call a coordinate is listed if and only if its
\* cell exists and its most recent passability setting was false: at the coordinate
\* of the call that is the setting of the call, elsewhere it is as in the input grid.
C28_Obstacles ==
    /\ \A g \in DOMAIN grids :
          LET grid == GridAt(Heap, g)
              obstacles == getObstacles(grid)
          IN  /\ \A c \in ProbeCoords \cup SeqToSet(CellCoords(grid)) \cup SeqToSet(obstacles) :
                    (c \in SeqToSet(obstacles)) <=> (hasCell(grid, c) /\ ~isPassable(grid, c))
              /\ \A i, j \in DOMAIN obstacles : i # j => obstacles[i] # obstacles[j]
    /\ getObstacles(snap[1]) = <<>>
    /\ last.op \in {"setPassable", "setCell", "removeCell"} =>
          LET before == SeqToSet(getObstacles(last.before))
              after == SeqToSet(getObstacles(GridAt(Heap, last.ret)))
          IN  /\ (last.coord \in after) <=> LeftImpassable
              /\ after \ {last.coord} = before \ {last.coord}

\* an obstacle was opened again by setCell: the cell at the coordinate had been made
\* impassable by an earlier call, and another obstacle is still listed
C28_Witness ==
    /\ last.op = "setCell"
    /\ last.cell.passable
    /\ last.coord \in SeqToSet(getObstacles(last.before))
    /\ getObstacles(GridAt(Heap, last.ret)) = <<>>
    /\ Len(grids) >= 3

-----------------------------------------------------------------------------
(* C30: the key of an entry is the hash of its cell's coord *)

\* C30: in every grid reached from a constructor by setCell, updateCell (with an
\* updater that changes the coord included), setCellData, setPassable and removeCell
\* calls, each entry's key is the hash of its cell's coord, no two entries hold the
\* same coord, and getCell(grid, c) returns only a cell whose coord is c.
C30_KeyIsHash ==
    \A g \in DOMAIN grids :
        LET grid == GridAt(Heap, g)
        IN  /\ \A i \in DOMAIN grid.cells :
                  grid.cells[i].key = hash(grid.cells[i].val.coord)
            /\ \A i, j \in DOMAIN grid.cells :
                  i # j => grid.cells[i].val.coord # grid.cells[j].val.coord
            /\ \A c \in ProbeCoords :
                  getCell(grid, c) # Null => getCell(grid, c).coord = c

\* updateCell was applied with an updater that returns a cell with another coord, and
\* before that setCell was given a cell that carries another coord than its target
C30_Witness ==
    /\ last.op = "updateCell"
    /\ last.updater = "move"
    /\ last.applied
    /\ last.grid >= 2
    /\ getCell(GridAt(Heap, last.ret), last.coord).coord = last.coord

=============================================================================
